---- MODULE Spec2Model ----
(***************************************************************************)
(* A model of the rate limiter of discordgo (ratelimit.go): the bucket     *)
(* registry, the per-bucket admission lock, the shared global throttle and *)
(* the custom rate limits, run by concurrent callers.                      *)
(*                                                                         *)
(* Time is counted in milliseconds from the start of the program.  Every   *)
(* time.Now() reads the variable now.  Strings that the code inspects      *)
(* (bucket keys, suffixes, header values) are sequences of one-character   *)
(* strings.  Pointers to Bucket and customRateLimit are indices into the   *)
(* heaps bkt and rules; 0 is the nil pointer.                              *)
(***************************************************************************)
EXTENDS Integers, Sequences, FiniteSets, TLC

\* ---------------------------------------------------------------- bounds

\* The clock stops advancing at MaxTime.
MaxTime == 1

\* LockBucket is not called on a bucket whose remaining is at or below -MaxDebt.
MaxDebt == 1

\* ---------------------------------------------------------------- inputs

\* The goroutines that call into the rate limiter.
Procs == {"p1", "p2"}

\* Bucket keys handed to LockBucket.
KeyA == <<"a", "x">>
KeyB == <<"b", "x">>
Keys == {KeyA, KeyB}

\* Suffixes handed to SetCustomRateLimit and RemoveCustomRateLimit.
SuffixX == <<"x">>
SuffixAX == <<"a", "x">>
Suffixes == {SuffixX, SuffixAX}

\* The (requests, reset in ms) pairs handed to SetCustomRateLimit.
RuleA == [requests |-> 1, reset |-> 1]
RuleB == [requests |-> 2, reset |-> 2]
RulesIn == {RuleA, RuleB}

\* ------------------------------------------------------- time and strings

\* The zero time.Time (the value of Bucket.reset and Bucket.lastReset before
\* their first assignment): earlier than every instant the clock shows.
ZeroTime == 0 - 1

\* What Time.Sub saturates to: a duration longer than every other of the model.
MaxDuration == 2^30

\* t.Sub(u): the duration t - u, saturated when u is the zero time.
TimeSub(t, u) == IF u = ZeroTime THEN MaxDuration ELSE t - u

\* t.After(u)
TimeAfter(t, u) == t > u

\* t.Before(u)
TimeBefore(t, u) == t < u

\* strings.HasSuffix(s, suffix)
HasSuffix(s, suffix) ==
    /\ Len(suffix) <= Len(s)
    /\ SubSeq(s, Len(s) - Len(suffix) + 1, Len(s)) = suffix

\* The value of a decimal digit, -1 for any other character.
DigitVal(c) ==
    CASE c = "0" -> 0 [] c = "1" -> 1 [] c = "2" -> 2 [] c = "3" -> 3
      [] c = "4" -> 4 [] c = "5" -> 5 [] c = "6" -> 6 [] c = "7" -> 7
      [] c = "8" -> 8 [] c = "9" -> 9 [] OTHER -> 0 - 1

\* The unsigned value of a sequence of digits read left to right from acc.
RECURSIVE DigitsVal(_, _)
DigitsVal(s, acc) ==
    IF s = <<>> THEN acc
    ELSE DigitsVal(Tail(s), acc * 10 + DigitVal(Head(s)))

\* strconv.ParseInt(s, 10, bitSize): an optional sign, then one or more
\* decimal digits; anything else is a syntax error.  (The inputs of the model
\* are too short to leave the range of bitSize.)
ParseInt(s) ==
    LET signed == s # <<>> /\ Head(s) \in {"+", "-"}
        digits == IF signed THEN Tail(s) ELSE s
        wellFormed == /\ digits # <<>>
                      /\ \A i \in 1..Len(digits) : DigitVal(digits[i]) >= 0
        mag == IF wellFormed THEN DigitsVal(digits, 0) ELSE 0
    IN  [ok |-> wellFormed,
         val |-> IF signed /\ Head(s) = "-" THEN 0 - mag ELSE mag]

\* Date headers of the model and the instant (ms since the epoch) each names.
DateEpoch0 == "Thu, 01 Jan 1970 00:00:00 GMT"
DateEpoch1 == "Thu, 01 Jan 1970 00:00:01 GMT"

\* http.ParseTime(text) on the Date headers of the model; every other text
\* of the model (the empty string, an unparsable one) is an error.
ParseTime(text) ==
    CASE text = DateEpoch0 -> [ok |-> TRUE, val |-> 0]
      [] text = DateEpoch1 -> [ok |-> TRUE, val |-> 1000]
      [] OTHER -> [ok |-> FALSE, val |-> 0]

\* ---------------------------------------------------------------- headers

\* A nil http.Header.
NilHeaders ==
    [nil |-> TRUE, remaining |-> <<>>, reset |-> <<>>, global |-> <<>>,
     retryAfter |-> <<>>, date |-> ""]

\* Non-nil headers with no rate limit header in them: what headers.Get
\* returns for X-RateLimit-Remaining, X-RateLimit-Reset, X-RateLimit-Global,
\* Retry-After and Date ("" when the header is absent).
NoHeaders == [NilHeaders EXCEPT !.nil = FALSE]

\* The headers handed to Release: nil; a global Retry-After with a remaining
\* count; a Retry-After for the bucket, with a remaining count and a reset
\* beside it; a remaining count; a reset with its Date; and one malformed
\* value of each header that Release parses: three of them (one a missing
\* Date) before a well-formed remaining count, and the malformed remaining
\* count once after a Retry-After for the bucket and once after a global
\* one, each applied.
HeadersIn ==
    { NilHeaders,
      [NoHeaders EXCEPT !.retryAfter = <<"1">>, !.global = <<"t">>,
                        !.remaining = <<"2">>],
      [NoHeaders EXCEPT !.retryAfter = <<"1">>, !.remaining = <<"1">>,
                        !.reset = <<"2">>, !.date = DateEpoch1],
      [NoHeaders EXCEPT !.remaining = <<"2">>],
      [NoHeaders EXCEPT !.reset = <<"1">>, !.date = DateEpoch1],
      [NoHeaders EXCEPT !.retryAfter = <<"x">>, !.remaining = <<"2">>],
      [NoHeaders EXCEPT !.reset = <<"1">>, !.remaining = <<"2">>],
      [NoHeaders EXCEPT !.reset = <<"x">>, !.date = DateEpoch1,
                        !.remaining = <<"2">>],
      [NoHeaders EXCEPT !.retryAfter = <<"1">>, !.remaining = <<"x">>],
      [NoHeaders EXCEPT !.retryAfter = <<"1">>, !.global = <<"t">>,
                        !.remaining = <<"x">>] }

\* Nil headers and a global Retry-After.
HeadersSeq ==
    { NilHeaders,
      [NoHeaders EXCEPT !.retryAfter = <<"1">>, !.global = <<"t">>] }

\* ------------------------------------------------------------------ state

VARIABLES
    now,               \* the clock, ms
    rmutex,            \* RateLimiter.Mutex is locked
    global,            \* *RateLimiter.global, ms since the epoch
    buckets,           \* RateLimiter.buckets: key -> *Bucket (0: no entry)
    customRateLimits,  \* RateLimiter.customRateLimits: sequence of *customRateLimit
    rules,             \* the customRateLimit objects allocated so far
    bkt,               \* the Bucket objects allocated so far
    pc,                \* where each goroutine is
    loc,               \* the arguments and local variables of each goroutine
    smutex,            \* Session.RWMutex is locked for writing
    handlers,          \* Session.handlers: nil, or event type -> handlers
    calls,             \* the AddHandler and initialize calls of each goroutine
    added              \* history: the handlers whose AddHandler has returned

\* The variables of the rate limiter and those of the Session.
rvars == <<now, rmutex, global, buckets, customRateLimits, rules, bkt, pc, loc>>
svars == <<smutex, handlers, calls, added>>
vars == <<rvars, svars>>

\* The locals of a goroutine that is in no call.  Three of the fields are
\* history variables, which no action reads: g0, the global rate limit that
\* was ahead when the goroutine called LockBucket (0 if none was), retro,
\* whether the Release it is in is the first one of its bucket since
\* SetCustomRateLimit attached a rule to a bucket that existed already, and
\* d186, the rl.reset that the Release it is in compared with the time since
\* lastReset (0 before it does).  t is the time.Now() or the resetAt that a
\* Release has computed and not used yet.
NoLocals ==
    [key |-> <<>>, b |-> 0, wake |-> 0, sleepTo |-> 0, hdr |-> NilHeaders,
     rl |-> 0, suffix |-> <<>>, requests |-> 0, reset |-> 0, todo |-> {},
     ret |-> "none", g0 |-> 0, retro |-> FALSE, d186 |-> 0, t |-> 0]

\* The keys of Session.handlers: the type of the second argument of a
\* handler, or nil for the handlers of every event.
EventTypes ==
    {"nil", "*Event", "*Ready", "*VoiceServerUpdate", "*VoiceStateUpdate"}

\* A handler, as reflect sees it: the number of its arguments and the types
\* of the first two.
Handler(name, numIn, in0, in1) ==
    [name |-> name, numIn |-> numIn, in0 |-> in0, in1 |-> in1]

\* The handlers that initialize adds, in its order.
InternalHandlers ==
    << Handler("onEvent", 2, "*Session", "*Event"),
       Handler("onReady", 2, "*Session", "*Ready"),
       Handler("onVoiceServerUpdate", 2, "*Session", "*VoiceServerUpdate"),
       Handler("onVoiceStateUpdate", 2, "*Session", "*VoiceStateUpdate"),
       Handler("State.onInterface", 2, "*Session", "interface{}") >>

\* The handlers that the callers add: one for an event type, one for every
\* event, one with one argument only and one for another receiver.
HandlersIn ==
    { Handler("h1", 2, "*Session", "*Ready"),
      Handler("h2", 2, "*Session", "interface{}"),
      Handler("h3", 1, "*Session", ""),
      Handler("h4", 2, "*State", "*Ready") }

\* A Session whose handlers are nil: no handler was added yet.
NilHandlers == [nil |-> TRUE, at |-> [t \in EventTypes |-> <<>>]]

\* map[interface{}][]reflect.Value{}
EmptyHandlers == [nil |-> FALSE, at |-> [t \in EventTypes |-> <<>>]]

\* A fresh Session, no goroutine in a call on it.
NewSession ==
    /\ smutex = FALSE
    /\ handlers = NilHandlers
    /\ calls = [p \in Procs |-> <<>>]
    /\ added = {}

\* NewRatelimiter()
Init ==
    /\ now = 0
    /\ rmutex = FALSE
    /\ global = 0
    /\ buckets = [k \in Keys |-> 0]
    /\ customRateLimits = <<>>
    /\ rules = <<>>
    /\ bkt = <<>>
    /\ pc = [p \in Procs |-> "idle"]
    /\ loc = [p \in Procs |-> NoLocals]
    /\ NewSession

\* The clock advances.
Tick ==
    /\ now < MaxTime
    /\ now' = now + 1
    /\ UNCHANGED <<svars, rmutex, global, buckets, customRateLimits, rules, bkt,
                   pc, loc>>

\* Goroutine p moves to label l with locals ls.
Goto(p, l, ls) ==
    /\ pc' = [pc EXCEPT ![p] = l]
    /\ loc' = [loc EXCEPT ![p] = ls]

\* The locals of a goroutine that has returned r from a call.
Returned(r) == [NoLocals EXCEPT !.ret = r]

\* ------------------------------------------------------------- getBucket

\* The loop of getBucket as it would be without its break: the last rule of
\* the list whose suffix ends key; 0 if none.
FirstMatchNoBreak(rs, heap, key) ==
    LET hits == {i \in 1..Len(rs) : HasSuffix(key, heap[rs[i]].suffix)}
    IN  IF hits = {} THEN 0
        ELSE rs[CHOOSE i \in hits : \A j \in hits : i >= j]

\* The first rule of the list rs, in order, whose suffix ends key; 0 if none.
RECURSIVE FirstMatch(_, _, _)
FirstMatch(rs, heap, key) ==
    IF rs = <<>> THEN 0
    ELSE IF HasSuffix(key, heap[Head(rs)].suffix) THEN Head(rs)
    ELSE FirstMatch(Tail(rs), heap, key)

\* &Bucket{remaining: 1, Key: key, global: r.global}, with the custom rate
\* limit that the loop over r.customRateLimits attaches.  (taken is a history
\* variable: the number of LockBucket calls that have returned inside the
\* cycle that the custom branch of Release started last, before the end of
\* that cycle, while the rule stayed attached and unchanged; -1 when there
\* is no such cycle.  retro is a history
\* variable: SetCustomRateLimit has attached the rule of this bucket and no
\* Release of the bucket has been called since.)
NewBucket(key) ==
    [Key |-> key, remaining |-> 1, reset |-> ZeroTime, lastReset |-> ZeroTime,
     customRateLimit |-> FirstMatch(customRateLimits, rules, key),
     locked |-> FALSE, crlmut |-> FALSE, retro |-> FALSE, taken |-> 0 - 1]

\* p calls r.LockBucket(key), which calls r.getBucket(key).
LockBucketCall(p, key) ==
    /\ pc[p] = "idle"
    /\ IF buckets[key] = 0 THEN TRUE
       ELSE bkt[buckets[key]].remaining > 0 - MaxDebt
    /\ Goto(p, "gb_lock", [NoLocals EXCEPT !.key = key,
                                           !.g0 = IF TimeBefore(now, global)
                                                  THEN global ELSE 0])
    /\ UNCHANGED <<svars, now, rmutex, global, buckets, customRateLimits, rules, bkt>>

\* getBucket as it would be without r.Lock(): it goes on while another
\* goroutine is inside the registry.
GetBucketLockUnguarded(p) ==
    /\ pc[p] = "gb_lock"
    /\ rmutex' = TRUE
    /\ Goto(p, "gb_find", loc[p])
    /\ UNCHANGED <<svars, now, global, buckets, customRateLimits, rules, bkt>>

\* getBucket: r.Lock()
GetBucketLock(p) ==
    /\ pc[p] = "gb_lock"
    /\ ~rmutex
    /\ rmutex' = TRUE
    /\ Goto(p, "gb_find", loc[p])
    /\ UNCHANGED <<svars, now, global, buckets, customRateLimits, rules, bkt>>

\* The lookup as it would be if a hit returned without unlocking r.
GetBucketFindKeepsLock(p) ==
    /\ pc[p] = "gb_find"
    /\ IF buckets[loc[p].key] # 0
       THEN /\ rmutex' = rmutex
            /\ Goto(p, "lb_lock", [loc[p] EXCEPT !.b = buckets[loc[p].key]])
       ELSE /\ rmutex' = rmutex
            /\ Goto(p, "gb_create", loc[p])
    /\ UNCHANGED <<svars, now, global, buckets, customRateLimits, rules, bkt>>

\* getBucket: the lookup in r.buckets; a hit returns it (and unlocks r).
GetBucketFind(p) ==
    /\ pc[p] = "gb_find"
    /\ IF buckets[loc[p].key] # 0
       THEN /\ rmutex' = FALSE
            /\ Goto(p, "lb_lock", [loc[p] EXCEPT !.b = buckets[loc[p].key]])
       ELSE /\ rmutex' = rmutex
            /\ Goto(p, "gb_create", loc[p])
    /\ UNCHANGED <<svars, now, global, buckets, customRateLimits, rules, bkt>>

\* getBucket: a miss creates the bucket, attaches the first matching custom
\* rate limit, stores it in r.buckets and returns it (and unlocks r).
GetBucketCreate(p) ==
    /\ pc[p] = "gb_create"
    /\ bkt' = Append(bkt, NewBucket(loc[p].key))
    /\ buckets' = [buckets EXCEPT ![loc[p].key] = Len(bkt) + 1]
    /\ rmutex' = FALSE
    /\ Goto(p, "lb_lock", [loc[p] EXCEPT !.b = Len(bkt) + 1])
    /\ UNCHANGED <<svars, now, global, customRateLimits, rules>>

\* ------------------------------------------------------------ LockBucket

\* LockBucket as it would be if b.Lock() did not wait for the holder.
BucketLockUnguarded(p) ==
    /\ pc[p] = "lb_lock"
    /\ bkt' = [bkt EXCEPT ![loc[p].b].locked = TRUE]
    /\ Goto(p, "lb_check", loc[p])
    /\ UNCHANGED <<svars, now, rmutex, global, buckets, customRateLimits, rules>>

\* LockBucket: b.Lock()
BucketLock(p) ==
    /\ pc[p] = "lb_lock"
    /\ ~bkt[loc[p].b].locked
    /\ bkt' = [bkt EXCEPT ![loc[p].b].locked = TRUE]
    /\ Goto(p, "lb_check", loc[p])
    /\ UNCHANGED <<svars, now, rmutex, global, buckets, customRateLimits, rules>>

\* LockBucket as it would be with the test b.remaining < 0.
BucketCheckOffByOne(p) ==
    /\ pc[p] = "lb_check"
    /\ LET b == bkt[loc[p].b] IN
       IF b.remaining < 0 /\ TimeAfter(b.reset, now)
       THEN Goto(p, "lb_sleep", [loc[p] EXCEPT !.wake = b.reset])
       ELSE Goto(p, "lb_global", loc[p])
    /\ UNCHANGED <<svars, now, rmutex, global, buckets, customRateLimits, rules, bkt>>

\* LockBucket: out of calls and the reset time still ahead: sleep until it.
BucketCheck(p) ==
    /\ pc[p] = "lb_check"
    /\ LET b == bkt[loc[p].b] IN
       IF b.remaining < 1 /\ TimeAfter(b.reset, now)
       THEN Goto(p, "lb_sleep", [loc[p] EXCEPT !.wake = b.reset])
       ELSE Goto(p, "lb_global", loc[p])
    /\ UNCHANGED <<svars, now, rmutex, global, buckets, customRateLimits, rules, bkt>>

\* LockBucket: time.Sleep(b.reset.Sub(time.Now())) returns.
BucketWake(p) ==
    /\ pc[p] = "lb_sleep"
    /\ now >= loc[p].wake
    /\ Goto(p, "lb_global", [loc[p] EXCEPT !.wake = 0])
    /\ UNCHANGED <<svars, now, rmutex, global, buckets, customRateLimits, rules, bkt>>

\* LockBucket as it would be if a bucket with calls left skipped the sleep
\* on the global rate limit.
GlobalCheckOnlyWhenEmpty(p) ==
    /\ pc[p] = "lb_global"
    /\ LET sleepTo == global IN
       IF bkt[loc[p].b].remaining < 1 /\ TimeBefore(now, sleepTo)
       THEN Goto(p, "lb_gsleep", [loc[p] EXCEPT !.sleepTo = sleepTo])
       ELSE Goto(p, "lb_dec", [loc[p] EXCEPT !.sleepTo = sleepTo])
    /\ UNCHANGED <<svars, now, rmutex, global, buckets, customRateLimits, rules, bkt>>

\* LockBucket: load the global rate limit; sleep until it if it is ahead.
GlobalCheck(p) ==
    /\ pc[p] = "lb_global"
    /\ LET sleepTo == global IN
       IF TimeBefore(now, sleepTo)
       THEN Goto(p, "lb_gsleep", [loc[p] EXCEPT !.sleepTo = sleepTo])
       ELSE Goto(p, "lb_dec", [loc[p] EXCEPT !.sleepTo = sleepTo])
    /\ UNCHANGED <<svars, now, rmutex, global, buckets, customRateLimits, rules, bkt>>

\* The sleep on the global rate limit as it would be if it could end early.
GlobalWakeEarly(p) ==
    /\ pc[p] = "lb_gsleep"
    /\ Goto(p, "lb_dec", loc[p])
    /\ UNCHANGED <<svars, now, rmutex, global, buckets, customRateLimits, rules, bkt>>

\* LockBucket: time.Sleep(sleepTo.Sub(now)) returns.
GlobalWake(p) ==
    /\ pc[p] = "lb_gsleep"
    /\ now >= loc[p].sleepTo
    /\ Goto(p, "lb_dec", loc[p])
    /\ UNCHANGED <<svars, now, rmutex, global, buckets, customRateLimits, rules, bkt>>

\* The last step of LockBucket as it would be if remaining stopped at zero.
BucketTakeFloored(p) ==
    /\ pc[p] = "lb_dec"
    /\ bkt' = [bkt EXCEPT ![loc[p].b].remaining = IF @ < 1 THEN 0 ELSE @ - 1]
    /\ Goto(p, "held", [loc[p] EXCEPT !.sleepTo = 0, !.g0 = 0])
    /\ UNCHANGED <<svars, now, rmutex, global, buckets, customRateLimits, rules>>

\* The history variable taken of bucket b after a LockBucket on it has
\* returned: one more if the return is inside the cycle that is counted.
TakenAfter(b) ==
    IF b.taken < 0 THEN b.taken
    ELSE IF now < b.lastReset + rules[b.customRateLimit].reset
    THEN b.taken + 1
    ELSE b.taken

\* LockBucket: b.remaining--; return b
BucketTake(p) ==
    /\ pc[p] = "lb_dec"
    /\ bkt' = [bkt EXCEPT ![loc[p].b].remaining = @ - 1,
                          ![loc[p].b].taken = TakenAfter(bkt[loc[p].b])]
    /\ Goto(p, "held", [loc[p] EXCEPT !.sleepTo = 0, !.g0 = 0])
    /\ UNCHANGED <<svars, now, rmutex, global, buckets, customRateLimits, rules>>

\* --------------------------------------------------------------- Release

\* The extra time added to a reset computed from X-RateLimit-Reset, ms.
ResetMargin == 250

\* p, holding bucket loc[p].b, calls b.Release(headers).  Release reads
\* b.customRateLimit between b.crlmut.Lock() and b.crlmut.Unlock(): with a
\* rule attached it goes on in the custom branch, and else with the headers.
ReleaseCall(p, headers) ==
    /\ pc[p] = "held"
    /\ ~bkt[loc[p].b].crlmut
    /\ LET rl == bkt[loc[p].b].customRateLimit IN
       IF rl # 0
       THEN Goto(p, "rel_c186", [loc[p] EXCEPT !.rl = rl,
                                               !.retro = bkt[loc[p].b].retro])
       ELSE Goto(p, "rel_hdr", [loc[p] EXCEPT !.hdr = headers,
                                              !.retro = bkt[loc[p].b].retro])
    /\ bkt' = [bkt EXCEPT ![loc[p].b].retro = FALSE]
    /\ UNCHANGED <<svars, now, rmutex, global, buckets, customRateLimits, rules>>

\* Release, custom branch: time.Now() of the test of line 186
ReleaseCustomNow(p) ==
    /\ pc[p] = "rel_c186"
    /\ Goto(p, "rel_c186c", [loc[p] EXCEPT !.t = now])
    /\ UNCHANGED <<svars, now, rmutex, global, buckets, customRateLimits, rules, bkt>>

\* Release, custom branch: if (that time).Sub(b.lastReset) >= rl.reset
ReleaseCustomElapsed(p) ==
    /\ pc[p] = "rel_c186c"
    /\ LET ls == [loc[p] EXCEPT !.d186 = rules[loc[p].rl].reset, !.t = 0] IN
       IF TimeSub(loc[p].t, bkt[loc[p].b].lastReset) >= rules[loc[p].rl].reset
       THEN Goto(p, "rel_c187", ls)
       ELSE Goto(p, "rel_c190", ls)
    /\ UNCHANGED <<svars, now, rmutex, global, buckets, customRateLimits, rules, bkt>>

\* The refill of the custom branch as it would be if it gave the bucket all
\* the requests of the rule, without counting the call that is released.
ReleaseCustomRefillFull(p) ==
    /\ pc[p] = "rel_c187"
    /\ bkt' = [bkt EXCEPT ![loc[p].b].remaining = rules[loc[p].rl].requests]
    /\ Goto(p, "rel_c188", loc[p])
    /\ UNCHANGED <<svars, now, rmutex, global, buckets, customRateLimits, rules>>

\* Release, custom branch: b.remaining = rl.requests - 1
ReleaseCustomRefill(p) ==
    /\ pc[p] = "rel_c187"
    /\ bkt' = [bkt EXCEPT ![loc[p].b].remaining = rules[loc[p].rl].requests - 1,
                          ![loc[p].b].taken =
                              IF bkt[loc[p].b].customRateLimit = loc[p].rl
                              THEN 0 - 2 ELSE 0 - 1]
    /\ Goto(p, "rel_c188", loc[p])
    /\ UNCHANGED <<svars, now, rmutex, global, buckets, customRateLimits, rules>>

\* Release, custom branch: b.lastReset = time.Now()
ReleaseCustomStamp(p) ==
    /\ pc[p] = "rel_c188"
    /\ bkt' = [bkt EXCEPT ![loc[p].b].lastReset = now,
                          ![loc[p].b].taken = IF @ = 0 - 2 THEN 0 ELSE @]
    /\ Goto(p, "rel_c190", loc[p])
    /\ UNCHANGED <<svars, now, rmutex, global, buckets, customRateLimits, rules>>

\* The end of the custom branch as it would be if it set the reset of the
\* bucket whether or not the bucket is out of calls.
ReleaseCustomResetAlways(p) ==
    /\ pc[p] = "rel_c190"
    /\ bkt' = bkt
    /\ Goto(p, "rel_c191", [loc[p] EXCEPT !.t = now])
    /\ UNCHANGED <<svars, now, rmutex, global, buckets, customRateLimits, rules>>

\* The end of the custom branch as it would be if it never set the reset of
\* the bucket.
ReleaseCustomResetNever(p) ==
    /\ pc[p] = "rel_c190"
    /\ bkt' = [bkt EXCEPT ![loc[p].b].locked = FALSE]
    /\ Goto(p, "done", Returned("nil"))
    /\ UNCHANGED <<svars, now, rmutex, global, buckets, customRateLimits, rules>>

\* Release, custom branch: if b.remaining < 1, the time.Now() of line 191;
\* otherwise return nil, and the deferred b.Unlock().
ReleaseCustomReset(p) ==
    /\ pc[p] = "rel_c190"
    /\ IF bkt[loc[p].b].remaining < 1
       THEN /\ bkt' = bkt
            /\ Goto(p, "rel_c191", [loc[p] EXCEPT !.t = now])
       ELSE /\ bkt' = [bkt EXCEPT ![loc[p].b].locked = FALSE]
            /\ Goto(p, "done", Returned("nil"))
    /\ UNCHANGED <<svars, now, rmutex, global, buckets, customRateLimits, rules>>

\* Release, custom branch: b.reset = (that time).Add(rl.reset); return nil,
\* and the deferred b.Unlock().
ReleaseCustomAdd(p) ==
    /\ pc[p] = "rel_c191"
    /\ bkt' = [bkt EXCEPT ![loc[p].b].reset = loc[p].t + rules[loc[p].rl].reset,
                          ![loc[p].b].locked = FALSE]
    /\ Goto(p, "done", Returned("nil"))
    /\ UNCHANGED <<svars, now, rmutex, global, buckets, customRateLimits, rules>>

\* The first part of the header branch as it would be if a Retry-After were
\* stored into the global rate limit whether or not X-RateLimit-Global is there.
ResetFromHeadersAlwaysGlobal(h, reset, g, t) ==
    LET parsedAfter == ParseInt(h.retryAfter)
    IN  IF h.retryAfter # <<>>
        THEN IF ~parsedAfter.ok
             THEN [reset |-> reset, global |-> g, err |-> TRUE]
             ELSE [reset |-> reset, global |-> t + parsedAfter.val, err |-> FALSE]
        ELSE [reset |-> reset, global |-> g, err |-> FALSE]

\* The first part of the header branch as it would be if X-RateLimit-Reset,
\* when it is there, were applied after a Retry-After for the bucket.
ResetFromHeadersBoth(h, reset, g, t) ==
    LET same == [reset |-> reset, global |-> g, err |-> FALSE]
        failed == [reset |-> reset, global |-> g, err |-> TRUE]
        parsedAfter == ParseInt(h.retryAfter)
        resetAt == t + parsedAfter.val
        discordTime == ParseTime(h.date)
        unix == ParseInt(h.reset)
        delta == (unix.val * 1000 - discordTime.val) + ResetMargin
    IN  IF h.retryAfter # <<>> /\ ~parsedAfter.ok THEN failed
        ELSE IF h.retryAfter # <<>> /\ h.global # <<>>
        THEN [same EXCEPT !.global = resetAt]
        ELSE IF h.reset # <<>>
        THEN IF ~discordTime.ok THEN failed
             ELSE IF ~unix.ok THEN failed
             ELSE [same EXCEPT !.reset = t + delta]
        ELSE IF h.retryAfter # <<>> THEN [same EXCEPT !.reset = resetAt]
        ELSE same

\* Release, header branch, first part: Retry-After (with X-RateLimit-Global)
\* or else X-RateLimit-Reset (with Date).  The reset of the bucket and the
\* global rate limit afterwards, and whether a header failed to parse.
ResetFromHeaders(h, reset, g, t) ==
    LET same == [reset |-> reset, global |-> g, err |-> FALSE]
        failed == [reset |-> reset, global |-> g, err |-> TRUE]
        parsedAfter == ParseInt(h.retryAfter)
        resetAt == t + parsedAfter.val
        discordTime == ParseTime(h.date)
        unix == ParseInt(h.reset)
        delta == (unix.val * 1000 - discordTime.val) + ResetMargin
    IN  IF h.retryAfter # <<>>
        THEN IF ~parsedAfter.ok THEN failed
             ELSE IF h.global # <<>> THEN [same EXCEPT !.global = resetAt]
             ELSE [same EXCEPT !.reset = resetAt]
        ELSE IF h.reset # <<>>
        THEN IF ~discordTime.ok THEN failed
             ELSE IF ~unix.ok THEN failed
             ELSE [same EXCEPT !.reset = t + delta]
        ELSE same

\* The second part of the header branch as it would be if the remaining count
\* were taken only from headers without Retry-After.
RemainingFromHeadersNoRetry(h, remaining) ==
    LET parsedRemaining == ParseInt(h.remaining)
    IN  IF h.remaining = <<>> THEN [remaining |-> remaining, err |-> FALSE]
        ELSE IF ~parsedRemaining.ok THEN [remaining |-> remaining, err |-> TRUE]
        ELSE IF h.retryAfter # <<>> THEN [remaining |-> remaining, err |-> FALSE]
        ELSE [remaining |-> parsedRemaining.val, err |-> FALSE]

\* Release, header branch, second part: X-RateLimit-Remaining.  The remaining
\* of the bucket afterwards, and whether the header failed to parse.
RemainingFromHeaders(h, remaining) ==
    LET parsedRemaining == ParseInt(h.remaining)
    IN  IF h.remaining = <<>> THEN [remaining |-> remaining, err |-> FALSE]
        ELSE IF ~parsedRemaining.ok THEN [remaining |-> remaining, err |-> TRUE]
        ELSE [remaining |-> parsedRemaining.val, err |-> FALSE]

\* The header branch as it would be if a return with a parse error of
\* Retry-After, Date or X-RateLimit-Reset did not unlock the bucket.
ReleaseHeadersKeepsSlot(p) ==
    /\ pc[p] = "rel_hdr"
    /\ LET h == loc[p].hdr
           b == bkt[loc[p].b]
           r1 == ResetFromHeaders(h, b.reset, global, now)
           r2 == RemainingFromHeaders(h, b.remaining)
       IN  IF h.nil
           THEN /\ bkt' = [bkt EXCEPT ![loc[p].b].locked = FALSE]
                /\ global' = global
                /\ Goto(p, "done", Returned("nil"))
           ELSE IF r1.err
           THEN /\ bkt' = bkt
                /\ global' = global
                /\ Goto(p, "done", Returned("parse"))
           ELSE IF h.retryAfter # <<>> /\ h.global # <<>>
           THEN /\ bkt' = bkt
                /\ global' = global
                /\ Goto(p, "rel_h221", [loc[p] EXCEPT !.t = r1.global])
           ELSE /\ bkt' = [bkt EXCEPT ![loc[p].b].reset = r1.reset,
                                      ![loc[p].b].remaining = r2.remaining,
                                      ![loc[p].b].locked = FALSE]
                /\ global' = r1.global
                /\ Goto(p, "done", Returned(IF r2.err THEN "parse" ELSE "nil"))
    /\ UNCHANGED <<svars, now, rmutex, buckets, customRateLimits, rules>>

\* The header branch as it would be if a Release without headers gave the
\* bucket its first call back.
ReleaseHeadersNilRefills(p) ==
    /\ pc[p] = "rel_hdr"
    /\ LET h == loc[p].hdr
           b == bkt[loc[p].b]
           r1 == ResetFromHeaders(h, b.reset, global, now)
           r2 == RemainingFromHeaders(h, b.remaining)
       IN  IF h.nil
           THEN /\ bkt' = [bkt EXCEPT ![loc[p].b].remaining = 1,
                                      ![loc[p].b].locked = FALSE]
                /\ global' = global
                /\ Goto(p, "done", Returned("nil"))
           ELSE IF r1.err
           THEN /\ bkt' = [bkt EXCEPT ![loc[p].b].locked = FALSE]
                /\ global' = global
                /\ Goto(p, "done", Returned("parse"))
           ELSE IF h.retryAfter # <<>> /\ h.global # <<>>
           THEN /\ bkt' = bkt
                /\ global' = global
                /\ Goto(p, "rel_h221", [loc[p] EXCEPT !.t = r1.global])
           ELSE /\ bkt' = [bkt EXCEPT ![loc[p].b].reset = r1.reset,
                                      ![loc[p].b].remaining = r2.remaining,
                                      ![loc[p].b].locked = FALSE]
                /\ global' = r1.global
                /\ Goto(p, "done", Returned(IF r2.err THEN "parse" ELSE "nil"))
    /\ UNCHANGED <<svars, now, rmutex, buckets, customRateLimits, rules>>

\* The header branch as it would be if a malformed remaining count undid the
\* reset and the global rate limit that the headers before it had set.
ReleaseHeadersAllOrNothing(p) ==
    /\ pc[p] = "rel_hdr"
    /\ LET h == loc[p].hdr
           b == bkt[loc[p].b]
           r1 == ResetFromHeaders(h, b.reset, global, now)
           r2 == RemainingFromHeaders(h, b.remaining)
       IN  IF h.nil
           THEN /\ bkt' = [bkt EXCEPT ![loc[p].b].locked = FALSE]
                /\ global' = global
                /\ Goto(p, "done", Returned("nil"))
           ELSE IF r1.err \/ r2.err
           THEN /\ bkt' = [bkt EXCEPT ![loc[p].b].locked = FALSE]
                /\ global' = global
                /\ Goto(p, "done", Returned("parse"))
           ELSE IF h.retryAfter # <<>> /\ h.global # <<>>
           THEN /\ bkt' = bkt
                /\ global' = global
                /\ Goto(p, "rel_h221", [loc[p] EXCEPT !.t = r1.global])
           ELSE /\ bkt' = [bkt EXCEPT ![loc[p].b].reset = r1.reset,
                                      ![loc[p].b].remaining = r2.remaining,
                                      ![loc[p].b].locked = FALSE]
                /\ global' = r1.global
                /\ Goto(p, "done", Returned("nil"))
    /\ UNCHANGED <<svars, now, rmutex, buckets, customRateLimits, rules>>

\* Release, header branch: nil headers return at once; otherwise the headers
\* update the global rate limit, b.reset and b.remaining up to the first one
\* that fails to parse.  Every return runs the deferred b.Unlock().  With a
\* Retry-After and X-RateLimit-Global this step ends with resetAt computed
\* (line 217), the store of line 221 is the next one.
ReleaseHeaders(p) ==
    /\ pc[p] = "rel_hdr"
    /\ LET h == loc[p].hdr
           b == bkt[loc[p].b]
           r1 == ResetFromHeaders(h, b.reset, global, now)
           r2 == RemainingFromHeaders(h, b.remaining)
       IN  IF h.nil
           THEN /\ bkt' = [bkt EXCEPT ![loc[p].b].locked = FALSE]
                /\ global' = global
                /\ Goto(p, "done", Returned("nil"))
           ELSE IF r1.err
           THEN /\ bkt' = [bkt EXCEPT ![loc[p].b].locked = FALSE]
                /\ global' = global
                /\ Goto(p, "done", Returned("parse"))
           ELSE IF h.retryAfter # <<>> /\ h.global # <<>>
           THEN /\ bkt' = bkt
                /\ global' = global
                /\ Goto(p, "rel_h221", [loc[p] EXCEPT !.t = r1.global])
           ELSE /\ bkt' = [bkt EXCEPT ![loc[p].b].reset = r1.reset,
                                      ![loc[p].b].remaining = r2.remaining,
                                      ![loc[p].b].locked = FALSE]
                /\ global' = r1.global
                /\ Goto(p, "done", Returned(IF r2.err THEN "parse" ELSE "nil"))
    /\ UNCHANGED <<svars, now, rmutex, buckets, customRateLimits, rules>>

\* Release, header branch: atomic.StoreInt64(b.global, resetAt.UnixNano()),
\* then X-RateLimit-Remaining, the return and the deferred b.Unlock().
ReleaseGlobal(p) ==
    /\ pc[p] = "rel_h221"
    /\ LET r2 == RemainingFromHeaders(loc[p].hdr, bkt[loc[p].b].remaining) IN
       /\ bkt' = [bkt EXCEPT ![loc[p].b].remaining = r2.remaining,
                             ![loc[p].b].locked = FALSE]
       /\ Goto(p, "done", Returned(IF r2.err THEN "parse" ELSE "nil"))
    /\ global' = loc[p].t
    /\ UNCHANGED <<svars, now, rmutex, buckets, customRateLimits, rules>>

\* ---------------------------------------------------- SetCustomRateLimit

\* The search as it would be if it took a rule whose suffix ends with suffix.
IndexOfEnding(rs, heap, suffix) ==
    LET hits == {i \in 1..Len(rs) : HasSuffix(heap[rs[i]].suffix, suffix)}
    IN  IF hits = {} THEN 0 ELSE CHOOSE i \in hits : \A j \in hits : i <= j

\* The index of the first rule of the list rs whose suffix is suffix; 0 if none.
IndexOfSuffix(rs, heap, suffix) ==
    LET hits == {i \in 1..Len(rs) : heap[rs[i]].suffix = suffix}
    IN  IF hits = {} THEN 0 ELSE CHOOSE i \in hits : \A j \in hits : i <= j

\* The buckets a range over r.buckets visits.
AllBuckets == {buckets[k] : k \in {k \in Keys : buckets[k] # 0}}

\* The customRateLimit objects that nothing refers to any more: not in
\* r.customRateLimits, attached to no bucket and held by no call.
Unreferenced ==
    {r \in 1..Len(rules) :
        /\ \A i \in 1..Len(customRateLimits) : customRateLimits[i] # r
        /\ \A b \in DOMAIN bkt : bkt[b].customRateLimit # r
        /\ \A q \in DOMAIN loc : loc[q].rl # r}

\* &customRateLimit{...}: the pointer to a new object.  An object that
\* nothing refers to is collected and its place in the heap is given out
\* again, the lowest first; the heap grows when there is none.
NewRule ==
    IF Unreferenced = {} THEN Len(rules) + 1
    ELSE CHOOSE r \in Unreferenced : \A q \in Unreferenced : r <= q

\* The heap with the object v at the place r.
Allocated(r, v) ==
    IF r = Len(rules) + 1 THEN Append(rules, v) ELSE [rules EXCEPT ![r] = v]

\* p calls r.SetCustomRateLimit(suffix, requests, reset).
SetCall(p, suffix, requests, reset) ==
    /\ pc[p] = "idle"
    /\ Goto(p, "set_lock", [NoLocals EXCEPT !.suffix = suffix,
                                            !.requests = requests,
                                            !.reset = reset])
    /\ UNCHANGED <<svars, now, rmutex, global, buckets, customRateLimits, rules, bkt>>

\* SetCustomRateLimit: r.Lock()
SetLock(p) ==
    /\ pc[p] = "set_lock"
    /\ ~rmutex
    /\ rmutex' = TRUE
    /\ Goto(p, "set_find", loc[p])
    /\ UNCHANGED <<svars, now, global, buckets, customRateLimits, rules, bkt>>

\* The search as it would be if SetCustomRateLimit looked at the first rule
\* of the list only.
SetFindFirstOnly(p) ==
    /\ pc[p] = "set_find"
    /\ IF /\ customRateLimits # <<>>
          /\ rules[customRateLimits[1]].suffix = loc[p].suffix
       THEN /\ Goto(p, "set_w51", [loc[p] EXCEPT !.rl = customRateLimits[1]])
            /\ UNCHANGED <<rules, customRateLimits>>
       ELSE /\ rules' = Allocated(NewRule, [suffix |-> loc[p].suffix,
                                            requests |-> loc[p].requests,
                                            reset |-> loc[p].reset])
            /\ customRateLimits' = Append(customRateLimits, NewRule)
            /\ Goto(p, "set_scan", [loc[p] EXCEPT !.rl = NewRule,
                                                  !.todo = AllBuckets])
    /\ UNCHANGED <<svars, now, rmutex, global, buckets, bkt>>

\* SetCustomRateLimit: look for a rule with this suffix; if there is none,
\* create one and append it to r.customRateLimits.
SetFind(p) ==
    /\ pc[p] = "set_find"
    /\ LET i == IndexOfSuffix(customRateLimits, rules, loc[p].suffix) IN
       IF i # 0
       THEN /\ Goto(p, "set_w51", [loc[p] EXCEPT !.rl = customRateLimits[i]])
            /\ UNCHANGED <<rules, customRateLimits>>
       ELSE /\ rules' = Allocated(NewRule, [suffix |-> loc[p].suffix,
                                            requests |-> loc[p].requests,
                                            reset |-> loc[p].reset])
            /\ customRateLimits' = Append(customRateLimits, NewRule)
            /\ Goto(p, "set_scan", [loc[p] EXCEPT !.rl = NewRule,
                                                  !.todo = AllBuckets])
    /\ UNCHANGED <<svars, now, rmutex, global, buckets, bkt>>

\* The buckets after a write of SetCustomRateLimit that changes rule rl (or
\* leaves it, if not changed): only the history variable taken of the
\* buckets of the rule is different, their cycle is counted no longer.
Uncounted(rl, changed) ==
    [b \in DOMAIN bkt |->
        IF changed /\ bkt[b].customRateLimit = rl
        THEN [bkt[b] EXCEPT !.taken = 0 - 1] ELSE bkt[b]]

\* SetCustomRateLimit, rule found: v.requests = requests
SetUpdateRequests(p) ==
    /\ pc[p] = "set_w51"
    /\ rules' = [rules EXCEPT ![loc[p].rl].requests = loc[p].requests]
    /\ bkt' = Uncounted(loc[p].rl, rules[loc[p].rl].requests # loc[p].requests)
    /\ Goto(p, "set_w52", loc[p])
    /\ UNCHANGED <<svars, now, rmutex, global, buckets, customRateLimits>>

\* SetCustomRateLimit, rule found: v.reset = reset
SetUpdateReset(p) ==
    /\ pc[p] = "set_w52"
    /\ rules' = [rules EXCEPT ![loc[p].rl].reset = loc[p].reset]
    /\ bkt' = Uncounted(loc[p].rl, rules[loc[p].rl].reset # loc[p].reset)
    /\ Goto(p, "set_scan", [loc[p] EXCEPT !.todo = AllBuckets])
    /\ UNCHANGED <<svars, now, rmutex, global, buckets, customRateLimits>>

\* The loop as it would be if it passed over the buckets that have a rule.
SetMatchingUnattached(p) ==
    {v \in loc[p].todo : /\ HasSuffix(bkt[v].Key, rules[loc[p].rl].suffix)
                         /\ bkt[v].customRateLimit = 0}

\* The buckets the loop of SetCustomRateLimit has still to attach to p's rule.
SetMatching(p) ==
    {v \in loc[p].todo : HasSuffix(bkt[v].Key, rules[loc[p].rl].suffix)}

\* The loop as it would be if it took the admission slot of the bucket
\* (v.Lock()) to attach the rule.
SetAttachInSlot(p) ==
    /\ pc[p] = "set_scan"
    /\ \E v \in SetMatching(p) :
          /\ ~bkt[v].crlmut
          /\ ~bkt[v].locked
          /\ bkt' = [bkt EXCEPT ![v].customRateLimit = loc[p].rl,
                                ![v].retro = TRUE]
          /\ Goto(p, "set_scan", [loc[p] EXCEPT !.todo = @ \ {v}])
    /\ UNCHANGED <<svars, now, rmutex, global, buckets, customRateLimits, rules>>

\* SetCustomRateLimit, loop over r.buckets (in any order), on the next bucket
\* whose key ends with the suffix: v.crlmut.Lock(); v.customRateLimit = rl;
\* v.crlmut.Unlock()
SetAttach(p) ==
    /\ pc[p] = "set_scan"
    /\ \E v \in SetMatching(p) :
          /\ ~bkt[v].crlmut
          /\ bkt' = [bkt EXCEPT ![v].customRateLimit = loc[p].rl,
                                ![v].retro = TRUE,
                                ![v].taken = IF bkt[v].customRateLimit = loc[p].rl
                                             THEN @ ELSE 0 - 1]
          /\ Goto(p, "set_scan", [loc[p] EXCEPT !.todo = @ \ {v}])
    /\ UNCHANGED <<svars, now, rmutex, global, buckets, customRateLimits, rules>>

\* SetCustomRateLimit: the loop is over; return, and the deferred r.Unlock().
SetReturn(p) ==
    /\ pc[p] = "set_scan"
    /\ SetMatching(p) = {}
    /\ rmutex' = FALSE
    /\ Goto(p, "idle", NoLocals)
    /\ UNCHANGED <<svars, now, global, buckets, customRateLimits, rules, bkt>>

\* ------------------------------------------------- RemoveCustomRateLimit

\* append(s[:i], s[i+1:]...)
RemoveAt(s, i) == SubSeq(s, 1, i - 1) \o SubSeq(s, i + 1, Len(s))

\* p calls r.RemoveCustomRateLimit(suffix).
RemoveCall(p, suffix) ==
    /\ pc[p] = "idle"
    /\ Goto(p, "rm_lock", [NoLocals EXCEPT !.suffix = suffix])
    /\ UNCHANGED <<svars, now, rmutex, global, buckets, customRateLimits, rules, bkt>>

\* RemoveCustomRateLimit: r.Lock()
RemoveLock(p) ==
    /\ pc[p] = "rm_lock"
    /\ ~rmutex
    /\ rmutex' = TRUE
    /\ Goto(p, "rm_find", loc[p])
    /\ UNCHANGED <<svars, now, global, buckets, customRateLimits, rules, bkt>>

\* RemoveCustomRateLimit: cut the first rule with this suffix out of
\* r.customRateLimits; if there is none, return the error (and unlock r).
RemoveFind(p) ==
    /\ pc[p] = "rm_find"
    /\ LET i == IndexOfSuffix(customRateLimits, rules, loc[p].suffix) IN
       IF i = 0
       THEN /\ rmutex' = FALSE
            /\ customRateLimits' = customRateLimits
            /\ Goto(p, "done", Returned("notfound"))
       ELSE /\ rmutex' = rmutex
            /\ customRateLimits' = RemoveAt(customRateLimits, i)
            /\ Goto(p, "rm_scan", [loc[p] EXCEPT !.todo = AllBuckets])
    /\ UNCHANGED <<svars, now, global, buckets, rules, bkt>>

\* The loop as it would be if it detached the rule of every bucket.
DetachedAny(b, suffix) == 0

\* The loop as it would be if it left every bucket its rule.
DetachedNever(b, suffix) == b.customRateLimit

\* The rule of bucket b after the loop of RemoveCustomRateLimit(suffix) has
\* visited it: nil if the bucket had a rule with this suffix.
Detached(b, suffix) ==
    IF b.customRateLimit # 0 /\ rules[b.customRateLimit].suffix = suffix
    THEN 0 ELSE b.customRateLimit

\* RemoveCustomRateLimit, loop over r.buckets (in any order), on the next
\* bucket: b.crlmut.Lock(); detach its rule if it has this suffix;
\* b.crlmut.Unlock()
RemoveDetach(p) ==
    /\ pc[p] = "rm_scan"
    /\ \E v \in loc[p].todo :
          /\ ~bkt[v].crlmut
          /\ bkt' = [bkt EXCEPT
                       ![v].customRateLimit = Detached(bkt[v], loc[p].suffix),
                       ![v].retro = @ /\ Detached(bkt[v], loc[p].suffix) # 0,
                       ![v].taken = IF Detached(bkt[v], loc[p].suffix) # 0
                                    THEN @ ELSE 0 - 1]
          /\ Goto(p, "rm_scan", [loc[p] EXCEPT !.todo = @ \ {v}])
    /\ UNCHANGED <<svars, now, rmutex, global, buckets, customRateLimits, rules>>

\* RemoveCustomRateLimit: the loop is over; return nil, and the deferred r.Unlock().
RemoveReturn(p) ==
    /\ pc[p] = "rm_scan"
    /\ loc[p].todo = {}
    /\ rmutex' = FALSE
    /\ Goto(p, "done", Returned("nil"))
    /\ UNCHANGED <<svars, now, global, buckets, customRateLimits, rules, bkt>>

\* The caller of Release or RemoveCustomRateLimit has the error value of its
\* call and goes on.
Return(p) ==
    /\ pc[p] = "done"
    /\ Goto(p, "idle", NoLocals)
    /\ UNCHANGED <<svars, now, rmutex, global, buckets, customRateLimits, rules, bkt>>

\* --------------------------------------------------------------- Session

\* A call of AddHandler(handler), at one of: "lock" (s.Lock()), "check" (the
\* tests of the handler and of s.handlers), "relock" (s.Lock() after
\* s.initialize()) and "append".
AddHandlerFrame(at, handler) ==
    [fn |-> "AddHandler", at |-> at, handler |-> handler, i |-> 0]

\* A call of initialize(), at one of "lock", "make" and "add"; i is the place
\* in InternalHandlers of the handler it adds next.
InitializeFrame(at, i) ==
    [fn |-> "initialize", at |-> at, handler |-> InternalHandlers[1], i |-> i]

\* The call goroutine p is in, the innermost one, is fn at label at.
At(p, fn, at) ==
    /\ calls[p] # <<>>
    /\ Head(calls[p]).fn = fn
    /\ Head(calls[p]).at = at

\* The handlers a goroutine is adding for its caller (not for initialize).
Adding == {calls[p][Len(calls[p])].handler : p \in {q \in Procs : calls[q] # <<>>}}

\* eventType := handlerType.In(1); nil if its kind is reflect.Interface
EventType(handler) ==
    IF handler.in1 = "interface{}" THEN "nil" ELSE handler.in1

\* The calls of p with the innermost one replaced by frames fs.
Instead(p, fs) == [calls EXCEPT ![p] = fs \o Tail(@)]

\* The callers: p calls s.AddHandler(handler), with a handler that was not
\* passed before.
AddHandlerCall(p, handler) ==
    /\ calls[p] = <<>>
    /\ handler \notin added \cup Adding
    /\ calls' = [calls EXCEPT ![p] = <<AddHandlerFrame("lock", handler)>>]
    /\ UNCHANGED <<rvars, smutex, handlers, added>>

\* AddHandler: s.Lock()
AddHandlerLock(p) ==
    /\ At(p, "AddHandler", "lock")
    /\ ~smutex
    /\ smutex' = TRUE
    /\ calls' = Instead(p, <<AddHandlerFrame("check", Head(calls[p]).handler)>>)
    /\ UNCHANGED <<rvars, handlers, added>>

\* AddHandler: panic, with the deferred s.Unlock(), unless the handler has
\* two arguments, the first a *Session; if s.handlers == nil, s.Unlock() and
\* the call of s.initialize().  A panic ends all the calls of the goroutine.
AddHandlerCheck(p) ==
    /\ At(p, "AddHandler", "check")
    /\ LET handler == Head(calls[p]).handler IN
       IF handler.numIn # 2 \/ handler.in0 # "*Session"
       THEN /\ smutex' = FALSE
            /\ calls' = [calls EXCEPT ![p] = <<>>]
       ELSE IF handlers.nil
       THEN /\ smutex' = FALSE
            /\ calls' = Instead(p, <<InitializeFrame("lock", 1),
                                     AddHandlerFrame("relock", handler)>>)
       ELSE /\ smutex' = smutex
            /\ calls' = Instead(p, <<AddHandlerFrame("append", handler)>>)
    /\ UNCHANGED <<rvars, handlers, added>>

\* AddHandler: s.Lock() after s.initialize()
AddHandlerRelock(p) ==
    /\ At(p, "AddHandler", "relock")
    /\ ~smutex
    /\ smutex' = TRUE
    /\ calls' = Instead(p, <<AddHandlerFrame("append", Head(calls[p]).handler)>>)
    /\ UNCHANGED <<rvars, handlers, added>>

\* AddHandler: s.handlers[eventType] = append(s.handlers[eventType], handler),
\* return, and the deferred s.Unlock().  (Storing into a nil map is a panic.)
AddHandlerAppend(p) ==
    /\ At(p, "AddHandler", "append")
    /\ LET handler == Head(calls[p]).handler IN
       IF handlers.nil
       THEN /\ calls' = [calls EXCEPT ![p] = <<>>]
            /\ UNCHANGED <<handlers, added>>
       ELSE /\ handlers' = [handlers EXCEPT !.at[EventType(handler)] =
                               Append(@, handler.name)]
            /\ calls' = Instead(p, <<>>)
            /\ added' = IF Len(calls[p]) = 1 THEN added \cup {handler}
                        ELSE added
    /\ smutex' = FALSE
    /\ UNCHANGED rvars

\* initialize: s.Lock()
InitializeLock(p) ==
    /\ At(p, "initialize", "lock")
    /\ ~smutex
    /\ smutex' = TRUE
    /\ calls' = Instead(p, <<InitializeFrame("make", 1)>>)
    /\ UNCHANGED <<rvars, handlers, added>>

\* initialize: s.handlers = map[interface{}][]reflect.Value{}; s.Unlock()
InitializeMake(p) ==
    /\ At(p, "initialize", "make")
    /\ handlers' = EmptyHandlers
    /\ smutex' = FALSE
    /\ calls' = Instead(p, <<InitializeFrame("add", 1)>>)
    /\ UNCHANGED <<rvars, added>>

\* initialize: s.AddHandler(...) with the next of the internal handlers
InitializeAdd(p) ==
    /\ At(p, "initialize", "add")
    /\ LET i == Head(calls[p]).i IN
       /\ i <= Len(InternalHandlers)
       /\ calls' = Instead(p, <<AddHandlerFrame("lock", InternalHandlers[i]),
                                InitializeFrame("add", i + 1)>>)
    /\ UNCHANGED <<rvars, smutex, handlers, added>>

\* initialize returns after the last of them.
InitializeReturn(p) ==
    /\ At(p, "initialize", "add")
    /\ Head(calls[p]).i > Len(InternalHandlers)
    /\ calls' = Instead(p, <<>>)
    /\ UNCHANGED <<rvars, smutex, handlers, added>>

\* ------------------------------------------------------- the whole system

\* One step of goroutine p: a call with inputs from the given sets (keys K,
\* suffixes S, rule settings R, headers H), or the next step of its call.
Step(p, K, S, R, H) ==
    \/ \E key \in K : LockBucketCall(p, key)
    \/ GetBucketLock(p)
    \/ GetBucketFind(p)
    \/ GetBucketCreate(p)
    \/ BucketLock(p)
    \/ BucketCheck(p)
    \/ BucketWake(p)
    \/ GlobalCheck(p)
    \/ GlobalWake(p)
    \/ BucketTake(p)
    \/ \E headers \in H : ReleaseCall(p, headers)
    \/ ReleaseCustomNow(p)
    \/ ReleaseCustomElapsed(p)
    \/ ReleaseCustomRefill(p)
    \/ ReleaseCustomStamp(p)
    \/ ReleaseCustomReset(p)
    \/ ReleaseCustomAdd(p)
    \/ ReleaseHeaders(p)
    \/ ReleaseGlobal(p)
    \/ \E suffix \in S, rule \in R : SetCall(p, suffix, rule.requests, rule.reset)
    \/ SetLock(p)
    \/ SetFind(p)
    \/ SetUpdateRequests(p)
    \/ SetUpdateReset(p)
    \/ SetAttach(p)
    \/ SetReturn(p)
    \/ \E suffix \in S : RemoveCall(p, suffix)
    \/ RemoveLock(p)
    \/ RemoveFind(p)
    \/ RemoveDetach(p)
    \/ RemoveReturn(p)
    \/ Return(p)

\* Two goroutines that share one bucket key.
Next ==
    \/ Tick
    \/ \E p \in Procs : Step(p, {KeyA}, {SuffixX}, {RuleB}, HeadersIn)

Spec == Init /\ [][Next]_vars

\* Two goroutines, each with a bucket key of its own.
KeyOf(p) == IF p = "p1" THEN KeyA ELSE KeyB

\* The first gets a global Retry-After of 2 ms or one for its bucket alone,
\* the second a global Retry-After of 1 ms.
HeadersOf(p) ==
    IF p = "p1"
    THEN { NilHeaders,
           [NoHeaders EXCEPT !.retryAfter = <<"2">>, !.global = <<"t">>],
           [NoHeaders EXCEPT !.retryAfter = <<"1">>, !.remaining = <<"1">>] }
    ELSE { NilHeaders,
           [NoHeaders EXCEPT !.retryAfter = <<"1">>, !.global = <<"t">>] }

\* Only the first of them sets and removes custom rate limits.
SuffixesOf(p) == IF p = "p1" THEN {SuffixX} ELSE {}

NextKeys ==
    \/ Tick
    \/ \E p \in Procs : Step(p, {KeyOf(p)}, SuffixesOf(p), {RuleA}, HeadersOf(p))

SpecKeys == Init /\ [][NextKeys]_vars

\* One goroutine that uses both bucket keys.
InitSeq ==
    /\ now = 0
    /\ rmutex = FALSE
    /\ global = 0
    /\ buckets = [k \in Keys |-> 0]
    /\ customRateLimits = <<>>
    /\ rules = <<>>
    /\ bkt = <<>>
    /\ pc = [p \in {"p1"} |-> "idle"]
    /\ loc = [p \in {"p1"} |-> NoLocals]
    /\ NewSession

NextSeq ==
    \/ Tick
    \/ Step("p1", Keys, Suffixes, {RuleA}, HeadersSeq)

SpecSeq == InitSeq /\ [][NextSeq]_vars

\* One goroutine that uses one bucket key and both rule settings.
NextRules ==
    \/ Tick
    \/ Step("p1", {KeyA}, Suffixes, RulesIn, HeadersSeq)

SpecRules == InitSeq /\ [][NextRules]_vars

\* What goroutine p does once it is scheduled: the next step of the call it
\* is in, the Release of the bucket it holds, or going on after a return.
Proceed(p) ==
    \/ GetBucketLock(p) \/ GetBucketFind(p) \/ GetBucketCreate(p)
    \/ BucketLock(p) \/ BucketCheck(p) \/ BucketWake(p)
    \/ GlobalCheck(p) \/ GlobalWake(p) \/ BucketTake(p)
    \/ \E headers \in HeadersSeq : ReleaseCall(p, headers)
    \/ ReleaseCustomNow(p) \/ ReleaseCustomElapsed(p) \/ ReleaseCustomRefill(p)
    \/ ReleaseCustomStamp(p) \/ ReleaseCustomReset(p) \/ ReleaseCustomAdd(p)
    \/ ReleaseHeaders(p) \/ ReleaseGlobal(p)
    \/ SetLock(p) \/ SetFind(p) \/ SetUpdateRequests(p) \/ SetUpdateReset(p)
    \/ SetAttach(p) \/ SetReturn(p)
    \/ RemoveLock(p) \/ RemoveFind(p) \/ RemoveDetach(p) \/ RemoveReturn(p)
    \/ Return(p)

\* Two goroutines that share one bucket key, under a fair scheduler: time
\* goes on, and a goroutine that can go on again and again does go on (a
\* sync.Mutex hands over to a waiter that has waited long enough).
NextLive ==
    \/ Tick
    \/ \E p \in Procs : Step(p, {KeyA}, {SuffixX}, {RuleA}, HeadersSeq)

Fairness == WF_vars(Tick) /\ \A p \in Procs : SF_vars(Proceed(p))

SpecLive == Init /\ [][NextLive]_vars /\ Fairness

\* One goroutine that makes requests on one key, with no headers or a global
\* Retry-After of 1 ms, while another sets the rule of that key, with either
\* setting, and removes it.  Release reads the
\* fields of the rule it found with no lock that SetCustomRateLimit takes;
\* SetCustomRateLimit writes them one after the other.  A step of the model
\* is one of these reads or writes, and every order of them is a behaviour.
NextRace ==
    \/ Tick
    \/ Step("p1", {KeyA}, {}, {},
            { NilHeaders,
              [NoHeaders EXCEPT !.retryAfter = <<"1">>, !.global = <<"t">>] })
    \/ Step("p2", {}, {SuffixX}, RulesIn, {})

SpecRace == Init /\ [][NextRace]_vars

\* One step of goroutine p on the Session.
SessionStep(p) ==
    \/ \E handler \in HandlersIn : AddHandlerCall(p, handler)
    \/ AddHandlerLock(p)
    \/ AddHandlerCheck(p)
    \/ AddHandlerRelock(p)
    \/ AddHandlerAppend(p)
    \/ InitializeLock(p)
    \/ InitializeMake(p)
    \/ InitializeAdd(p)
    \/ InitializeReturn(p)

\* Two goroutines that add handlers to a fresh Session.
NextSession == \E p \in Procs : SessionStep(p)

SpecSession == Init /\ [][NextSession]_vars

\* ------------------------------------------------------------ properties

\* The goroutines and the buckets of a state.
Ps == DOMAIN pc
Bs == 1..Len(bkt)

\* p has a bucket from getBucket: it is in LockBucket past getBucket, between
\* LockBucket and Release, or in Release.
HasBucket(p) ==
    pc[p] \in {"lb_lock", "lb_check", "lb_sleep", "lb_global", "lb_gsleep",
               "lb_dec", "held", "rel_c186", "rel_c186c", "rel_c187", "rel_c188",
               "rel_c190", "rel_c191", "rel_hdr", "rel_h221"}

\* p holds the admission slot of its bucket: from b.Lock() in LockBucket
\* (the sleeps of LockBucket included) to b.Unlock() at the end of Release.
InSlot(p) == HasBucket(p) /\ pc[p] # "lb_lock"

\* There is one Bucket object per key, it is the one the registry maps the
\* key to, and it is the one every caller of LockBucket has.
OneBucketPerKey ==
    /\ \A b1, b2 \in Bs : bkt[b1].Key = bkt[b2].Key => b1 = b2
    /\ \A k \in Keys : buckets[k] # 0 => bkt[buckets[k]].Key = k
    /\ \A p \in Ps : HasBucket(p) =>
          loc[p].b # 0 /\ loc[p].b = buckets[loc[p].key]

\* A key that has a bucket keeps that bucket.
BucketsStay == \A k \in Keys : buckets[k] # 0 => buckets'[k] = buckets[k]

\* C1: for every key, across all interleavings of LockBucket and
\* configuration calls, the registry maps the key to one single Bucket that
\* every caller receives, and a key's bucket, once created, is never replaced
\* or removed.
C1_SingleBucketPerKey == []OneBucketPerKey /\ [][BucketsStay]_vars

\* Two goroutines have called LockBucket on the same key before its bucket
\* existed: one holds the bucket, the other waits for the slot of the same one.
C1_Witness ==
    \E p, q \in Ps :
       /\ p # q /\ pc[p] = "held" /\ pc[q] = "lb_lock"
       /\ loc[p].b = loc[q].b /\ loc[p].key = loc[q].key
       /\ customRateLimits # <<>>

\* No two goroutines hold the admission slot of the same bucket.
SlotExclusive ==
    \A p, q \in Ps : p # q /\ InSlot(p) /\ InSlot(q) => loc[p].b # loc[q].b

\* A step that changes remaining, reset or lastReset of a bucket is a step of
\* the goroutine that holds the slot of that bucket.
SlotOwnerWrites ==
    \A b \in Bs :
       (\/ bkt'[b].remaining # bkt[b].remaining
        \/ bkt'[b].reset # bkt[b].reset
        \/ bkt'[b].lastReset # bkt[b].lastReset)
       => \E p \in Ps : InSlot(p) /\ loc[p].b = b /\ pc'[p] # pc[p]

\* C2: for every key at most one caller holds the admission slot at a time,
\* the sleeps inside LockBucket included, and remaining, reset and lastReset
\* of a bucket are written only by the caller that holds its slot.
C2_ExclusiveSlot == []SlotExclusive /\ [][SlotOwnerWrites]_vars

\* One goroutine sleeps inside LockBucket on the reset of the bucket while
\* another waits for the slot of the same bucket.
C2_Witness ==
    \E p, q \in Ps :
       /\ p # q /\ pc[p] = "lb_sleep" /\ pc[q] = "lb_lock"
       /\ loc[p].b = loc[q].b

\* The step by which LockBucket returns to p.
Returns(p) == pc[p] = "lb_dec" /\ pc'[p] = "held"

\* The step by which p loads the global rate limit in LockBucket.
LoadsGlobal(p) == pc[p] = "lb_global" /\ pc'[p] # "lb_global"

\* C3 as stated: once a Release has stored a global rate limit G, a LockBucket
\* called afterwards, on whatever bucket, does not return before G.
C3_NotBeforeStoredGlobal ==
    [][\A p \in Ps : Returns(p) => now >= loc[p].g0]_vars

\* C3, amended: a LockBucket call, on whatever bucket and whatever the
\* remaining of that bucket, does not return before the global rate limit that
\* it loads, which is the one stored by the latest Release that stored one.
C3_NotBeforeLoadedGlobal ==
    [][\A p \in Ps :
          /\ LoadsGlobal(p) => loc'[p].sleepTo = global
          /\ Returns(p) => now >= loc[p].sleepTo]_vars

\* The goroutine of key B, in its first LockBucket (the bucket has its first
\* remaining of 1 and no reset), sleeps until the global rate limit that was in
\* force when it called: a Release of the bucket of key A stored it.
C3_Witness ==
    \E p \in Ps :
       /\ pc[p] = "lb_gsleep" /\ loc[p].key = KeyB
       /\ bkt[loc[p].b].remaining = 1 /\ bkt[loc[p].b].reset = ZeroTime
       /\ loc[p].sleepTo > now /\ loc[p].sleepTo = loc[p].g0

\* p is in LockBucket past the test of remaining and reset.
PastBucketCheck(p) == pc[p] \in {"lb_global", "lb_gsleep", "lb_dec"}

\* A LockBucket call that finds no call left is not past its test of the
\* bucket before the reset of the bucket, and its sleep ends with that reset.
WaitsForReset ==
    \A p \in Ps :
       /\ PastBucketCheck(p) /\ bkt[loc[p].b].remaining < 1
             => now >= bkt[loc[p].b].reset
       /\ pc[p] = "lb_sleep"
             => /\ bkt[loc[p].b].remaining < 1
                /\ loc[p].wake = bkt[loc[p].b].reset
                /\ (now >= bkt[loc[p].b].reset => ENABLED BucketWake(p))

\* A LockBucket call that finds a call left does not sleep on the bucket;
\* every return of LockBucket takes one call; a Release with nil headers of a
\* bucket without rule leaves remaining and reset as they are.
CountsDown ==
    \A p \in Ps :
       /\ pc[p] = "lb_check" /\ bkt[loc[p].b].remaining >= 1
             => pc'[p] # "lb_sleep"
       /\ Returns(p)
             => bkt'[loc[p].b].remaining = bkt[loc[p].b].remaining - 1
       /\ pc[p] = "rel_hdr" /\ loc[p].hdr.nil /\ pc'[p] # "rel_hdr"
             => /\ bkt'[loc[p].b].remaining = bkt[loc[p].b].remaining
                /\ bkt'[loc[p].b].reset = bkt[loc[p].b].reset

\* C4: with remaining = N >= 1, the reset ahead, every call released with nil
\* headers and no rule attached, the first N LockBucket calls return without
\* sleeping on the bucket (each takes one of the N), and the call after them
\* does not return before the reset has elapsed, and is let go on then.
C4_BlocksAfterN == []WaitsForReset /\ [][CountsDown]_vars

\* A LockBucket call sleeps on a bucket without rule that has no call left
\* and its reset ahead.
C4_Witness ==
    \E p \in Ps :
       /\ pc[p] = "lb_sleep" /\ bkt[loc[p].b].customRateLimit = 0
       /\ bkt[loc[p].b].remaining = 0 /\ bkt[loc[p].b].reset > now

\* p ends the header branch of Release with a well-formed Retry-After and no
\* X-RateLimit-Global.
LocalRetryAfter(p) ==
    /\ pc[p] = "rel_hdr" /\ pc'[p] # "rel_hdr"
    /\ ~loc[p].hdr.nil
    /\ loc[p].hdr.retryAfter # <<>> /\ ParseInt(loc[p].hdr.retryAfter).ok
    /\ loc[p].hdr.global = <<>>

\* Such a Release sets the reset of its own bucket and leaves the global rate
\* limit alone; no step of a Release changes remaining, reset or lastReset
\* of another bucket.
ReleaseStaysLocal ==
    \A p \in Ps :
       /\ LocalRetryAfter(p)
             => /\ global' = global
                /\ bkt'[loc[p].b].reset = now + ParseInt(loc[p].hdr.retryAfter).val
       /\ pc[p] \in {"held", "rel_c186", "rel_c186c", "rel_c187", "rel_c188",
                     "rel_c190", "rel_c191", "rel_hdr", "rel_h221"}
          /\ pc'[p] # pc[p]
             => \A b \in Bs \ {loc[p].b} :
                   /\ bkt'[b].remaining = bkt[b].remaining
                   /\ bkt'[b].reset = bkt[b].reset
                   /\ bkt'[b].lastReset = bkt[b].lastReset

\* A LockBucket call waits for a slot only while a goroutine holds the slot
\* of its own bucket, and sleeps on the reset of its own bucket only.
WaitsOnOwnBucket ==
    \A p \in Ps :
       /\ pc[p] = "lb_lock"
          /\ (\A q \in Ps \ {p} : InSlot(q) => loc[q].b # loc[p].b)
             => ENABLED BucketLock(p)
       /\ pc[p] = "lb_check" => ENABLED BucketCheck(p)
       /\ pc[p] = "lb_sleep" /\ now >= bkt[loc[p].b].reset
             => ENABLED BucketWake(p)

\* C5: buckets of different keys are independent: a Release with Retry-After
\* and no global flag changes the reset of its own bucket only, not the global
\* rate limit nor remaining or reset of another bucket, and a LockBucket on
\* another key is held up neither by the reset or remaining of that bucket
\* nor by a caller that holds its slot or sleeps in it.
C5_KeysIndependent == []WaitsOnOwnBucket /\ [][ReleaseStaysLocal]_vars

\* One goroutine sleeps in the slot of the bucket of key A, on the reset that
\* a Retry-After without global flag gave that bucket, while the other is
\* about to lock the bucket of key B.
C5_Witness ==
    \E p, q \in Ps :
       /\ pc[p] = "lb_sleep" /\ loc[p].key = KeyA
       /\ bkt[loc[p].b].customRateLimit = 0 /\ global = 0
       /\ pc[q] = "lb_lock" /\ loc[q].key = KeyB

\* The rules of the list r.customRateLimits.
Listed == {customRateLimits[i] : i \in 1..Len(customRateLimits)}

\* Bucket b has a rule attached, and the suffix of that rule is suffix.
AttachedTo(b, suffix) ==
    bkt[b].customRateLimit # 0 /\ rules[bkt[b].customRateLimit].suffix = suffix

\* p is inside SetCustomRateLimit, past r.Lock().
InSet(p) == pc[p] \in {"set_find", "set_w51", "set_w52", "set_scan"}

\* When SetCustomRateLimit(suffix, R, D) returns, every bucket whose key ends
\* with suffix has a rule of the list attached that has this suffix, R and D;
\* no step of the call changes the rule of a bucket whose key does not end
\* with suffix.
SetAttachesMatching ==
    \A p \in Ps :
       /\ pc[p] = "set_scan" /\ pc'[p] # "set_scan"
             => \A b \in Bs :
                   HasSuffix(bkt[b].Key, loc[p].suffix)
                      => /\ AttachedTo(b, loc[p].suffix)
                         /\ bkt[b].customRateLimit \in Listed
                         /\ rules[bkt[b].customRateLimit].requests = loc[p].requests
                         /\ rules[bkt[b].customRateLimit].reset = loc[p].reset
       /\ InSet(p)
             => \A b \in Bs :
                   ~HasSuffix(bkt[b].Key, loc[p].suffix)
                      => bkt'[b].customRateLimit = bkt[b].customRateLimit

\* C6: after SetCustomRateLimit(suffix, R, D) returns, every bucket that
\* exists and whose key ends with suffix is attached to the rule with that
\* suffix (buckets created before the rule and buckets that had another rule
\* included), and every bucket whose key does not end with suffix keeps the
\* attachment it had.
C6_SetReattaches == [][SetAttachesMatching]_vars

\* SetCustomRateLimit has returned after it moved the bucket of key A from
\* the rule of suffix x, the first of the list, to the rule of suffix a.x;
\* the bucket of key B, which does not end with a.x, still has the rule of x.
C6_Witness ==
    /\ pc["p1"] = "idle"
    /\ Len(customRateLimits) = 2
    /\ rules[customRateLimits[1]].suffix = SuffixX
    /\ buckets[KeyA] # 0 /\ buckets[KeyB] # 0
    /\ AttachedTo(buckets[KeyA], SuffixAX) /\ bkt[buckets[KeyA]].retro
    /\ AttachedTo(buckets[KeyB], SuffixX)

\* The step by which the Release of p returns.
ReleaseReturns(p) ==
    pc[p] \in {"rel_c190", "rel_c191", "rel_hdr", "rel_h221"} /\ pc'[p] = "done"

\* The first Release of a bucket after SetCustomRateLimit attached a rule to
\* it returns from the custom branch with remaining = requests - 1.
RetroRefills ==
    \A p \in Ps :
       /\ pc[p] = "held" /\ pc'[p] # "held" /\ bkt[loc[p].b].retro
             => pc'[p] = "rel_c186"
       /\ ReleaseReturns(p) /\ loc[p].retro
             => /\ pc[p] \in {"rel_c190", "rel_c191"}
                /\ bkt'[loc[p].b].remaining = rules[loc[p].rl].requests - 1

\* C7 as stated: if SetCustomRateLimit(suffix, R, D) is issued after a bucket
\* whose key matches suffix exists, and the rule is not removed in between,
\* the next Release of the bucket follows the custom branch and leaves
\* remaining = R - 1.
C7_RetroRemaining == [][RetroRefills]_vars

\* That Release follows the custom branch; it sets remaining = requests - 1
\* exactly if the time since lastReset of the bucket, at the time.Now() of
\* its test, is at least the reset of the rule, and leaves remaining as it
\* was otherwise.
RetroRefillsWhenElapsed ==
    \A p \in Ps :
       /\ pc[p] = "held" /\ pc'[p] # "held" /\ bkt[loc[p].b].retro
             => pc'[p] = "rel_c186"
       /\ ReleaseReturns(p) /\ loc[p].retro
             => pc[p] \in {"rel_c190", "rel_c191"}
       /\ pc[p] = "rel_c186" /\ pc'[p] # "rel_c186" /\ loc[p].retro
             => /\ pc'[p] = "rel_c186c" /\ loc'[p].t = now
                /\ bkt'[loc[p].b].remaining = bkt[loc[p].b].remaining
       /\ pc[p] = "rel_c186c" /\ pc'[p] # "rel_c186c" /\ loc[p].retro
             => /\ bkt'[loc[p].b].remaining = bkt[loc[p].b].remaining
                /\ IF TimeSub(loc[p].t, bkt[loc[p].b].lastReset)
                         >= rules[loc[p].rl].reset
                   THEN pc'[p] = "rel_c187"
                   ELSE pc'[p] = "rel_c190"
       /\ pc[p] = "rel_c187" /\ pc'[p] # "rel_c187" /\ loc[p].retro
             => /\ pc'[p] = "rel_c188"
                /\ bkt'[loc[p].b].remaining = rules[loc[p].rl].requests - 1
       /\ pc[p] = "rel_c188" /\ pc'[p] # "rel_c188" /\ loc[p].retro
             => /\ pc'[p] = "rel_c190"
                /\ bkt'[loc[p].b].remaining = bkt[loc[p].b].remaining
                /\ bkt'[loc[p].b].lastReset = now
       /\ pc[p] \in {"rel_c190", "rel_c191"} /\ pc'[p] # pc[p] /\ loc[p].retro
             => bkt'[loc[p].b].remaining = bkt[loc[p].b].remaining

\* C7, amended: if SetCustomRateLimit(suffix, R, D) is issued after a bucket
\* whose key matches suffix exists, and the rule is not removed in between,
\* the next Release of the bucket follows the custom branch; it leaves
\* remaining = R - 1 if at least D has passed since lastReset of the bucket
\* (as it has for a bucket the custom branch never refilled) when the Release
\* reads the clock for its test, and leaves remaining unchanged otherwise.
C7_RetroRemainingWhenElapsed == [][RetroRefillsWhenElapsed]_vars

\* The first Release of a bucket after SetCustomRateLimit attached its rule
\* is about to return from the custom branch, having refilled the bucket.
C7_Witness ==
    \E p \in Ps :
       /\ pc[p] = "rel_c190" /\ loc[p].retro
       /\ bkt[loc[p].b].remaining = rules[loc[p].rl].requests - 1
       /\ bkt[loc[p].b].lastReset = now

\* p is inside RemoveCustomRateLimit, past r.Lock().
InRemove(p) == pc[p] \in {"rm_find", "rm_scan"}

\* When RemoveCustomRateLimit(suffix) returns nil, no rule of the list and no
\* rule of a bucket has this suffix; its search cuts exactly the rules with
\* this suffix out of the list; no step of the call changes a rule, a bucket
\* without rule or a bucket whose rule has another suffix.
RemoveDetachesExactly ==
    \A p \in Ps :
       /\ pc[p] = "rm_scan" /\ pc'[p] # "rm_scan"
             => /\ \A r \in Listed : rules[r].suffix # loc[p].suffix
                /\ \A b \in Bs : ~AttachedTo(b, loc[p].suffix)
                /\ loc'[p].ret = "nil"
       /\ pc[p] = "rm_find" /\ pc'[p] = "rm_scan"
             => customRateLimits' =
                   SelectSeq(customRateLimits,
                             LAMBDA r : rules[r].suffix # loc[p].suffix)
       /\ InRemove(p)
             => /\ rules' = rules
                /\ \A b \in Bs : ~AttachedTo(b, loc[p].suffix) => bkt'[b] = bkt[b]

\* C8: after a successful RemoveCustomRateLimit(suffix) the rule with that
\* suffix is no longer in the rule list, every bucket that was attached to a
\* rule with exactly that suffix has no rule, and every bucket attached to a
\* rule with a different suffix, and every other rule of the list, is left
\* untouched.
C8_RemoveDetaches == [][RemoveDetachesExactly]_vars

\* RemoveCustomRateLimit of suffix a.x is about to return: the bucket of key
\* A, which had that rule, has none, while the rule of suffix x is still in
\* the list and still attached to the bucket of key B.
C8_Witness ==
    /\ pc["p1"] = "rm_scan" /\ loc["p1"].todo = {} /\ loc["p1"].suffix = SuffixAX
    /\ buckets[KeyA] # 0 /\ buckets[KeyB] # 0
    /\ bkt[buckets[KeyA]].customRateLimit = 0
    /\ AttachedTo(buckets[KeyB], SuffixX)
    /\ bkt[buckets[KeyB]].customRateLimit \in Listed

\* RemoveCustomRateLimit returns the error from its search, and from there
\* exactly if no rule of the list has the suffix; that step changes neither
\* the list nor a rule nor a bucket, and the return after the loop is nil.
RemoveErrsIffUnknown ==
    \A p \in Ps :
       /\ pc[p] = "rm_find" /\ pc'[p] # "rm_find"
             => /\ (pc'[p] = "done" /\ loc'[p].ret = "notfound")
                      <=> (\A r \in Listed : rules[r].suffix # loc[p].suffix)
                /\ pc'[p] = "done"
                      => /\ customRateLimits' = customRateLimits
                         /\ rules' = rules
                         /\ bkt' = bkt
       /\ pc[p] \notin {"rm_find", "done"} /\ pc'[p] = "done"
             => loc'[p].ret # "notfound"

\* C9: RemoveCustomRateLimit(suffix) returns an error exactly when no
\* registered rule has that suffix, and then the rule list and the rule of
\* every bucket are unchanged.
C9_RemoveUnknown == [][RemoveErrsIffUnknown]_vars

\* RemoveCustomRateLimit has returned the error for suffix x while the rule
\* of suffix a.x is in the list and attached to the bucket of key A.
C9_Witness ==
    /\ pc["p1"] = "done" /\ loc["p1"].ret = "notfound"
    /\ Len(customRateLimits) = 1
    /\ rules[customRateLimits[1]].suffix = SuffixAX
    /\ buckets[KeyA] # 0 /\ AttachedTo(buckets[KeyA], SuffixAX)

\* A bucket is locked only while a goroutine holds its slot, and a LockBucket
\* that waits for the slot can take it when no goroutine holds it.
SlotNeverLeftLocked ==
    /\ \A b \in Bs :
          bkt[b].locked => \E p \in Ps : InSlot(p) /\ loc[p].b = b
    /\ \A p \in Ps :
          pc[p] = "lb_lock" /\ (\A q \in Ps : InSlot(q) => loc[q].b # loc[p].b)
             => ENABLED BucketLock(p)

\* Every return of Release leaves the bucket unlocked.
ReleaseUnlocks ==
    \A p \in Ps : ReleaseReturns(p) => ~bkt'[loc[p].b].locked

\* C10: Release frees the admission slot on every exit path (custom branch,
\* nil headers, header update and every parse error), so that after Release
\* has returned, with or without error, a later LockBucket on the key can
\* take the slot: the bucket is never left checked out.
C10_ReleaseFreesSlot == []SlotNeverLeftLocked /\ [][ReleaseUnlocks]_vars

\* Release has returned a parse error and the bucket is unlocked, with
\* another LockBucket on the same key waiting for the slot.
C10_Witness ==
    \E p, q \in Ps :
       /\ pc[p] = "done" /\ loc[p].ret = "parse"
       /\ pc[q] = "lb_lock" /\ ~bkt[loc[q].b].locked

\* p is in Release(nil) of a bucket without rule: at the call, when headers
\* is nil, or in the header branch with nil headers.
InReleaseNil(p) ==
    \/ pc[p] = "held" /\ bkt[loc[p].b].customRateLimit = 0
       /\ pc'[p] = "rel_hdr" /\ loc'[p].hdr.nil
    \/ pc[p] = "rel_hdr" /\ loc[p].hdr.nil /\ pc'[p] # "rel_hdr"

\* No step of Release(nil) on a bucket without rule changes remaining, reset,
\* lastReset, the rule of a bucket or the global rate limit; the call holds
\* the slot until its last step, which unlocks the bucket and returns nil.
ReleaseNilOnlyUnlocks ==
    \A p \in Ps :
       InReleaseNil(p)
          => /\ global' = global
             /\ \A b \in Bs :
                   /\ bkt'[b].remaining = bkt[b].remaining
                   /\ bkt'[b].reset = bkt[b].reset
                   /\ bkt'[b].lastReset = bkt[b].lastReset
                   /\ bkt'[b].customRateLimit = bkt[b].customRateLimit
                   /\ b # loc[p].b => bkt'[b].locked = bkt[b].locked
             /\ bkt[loc[p].b].locked
             /\ bkt'[loc[p].b].locked <=> pc'[p] = "rel_hdr"
             /\ pc'[p] = "done" => loc'[p].ret = "nil"
             /\ UNCHANGED <<buckets, customRateLimits, rules, rmutex>>

\* C11: Release(nil) on a bucket with no custom rule attached leaves
\* remaining, reset, lastReset and the shared global rate limit unchanged and
\* only frees the slot.
C11_ReleaseNilFrame == [][ReleaseNilOnlyUnlocks]_vars

\* Release(nil) is about to return on a bucket without rule that is out of
\* calls with its reset ahead, after a global rate limit has been stored.
C11_Witness ==
    \E p \in Ps :
       /\ pc[p] = "rel_hdr" /\ loc[p].hdr.nil
       /\ bkt[loc[p].b].remaining < 1
       /\ bkt[loc[p].b].reset > now /\ global # 0

\* Headers whose only rate limit header is X-RateLimit-Remaining, well-formed.
OnlyRemaining(h) ==
    /\ ~h.nil /\ h.retryAfter = <<>> /\ h.reset = <<>> /\ h.global = <<>>
    /\ h.remaining # <<>> /\ ParseInt(h.remaining).ok

\* A new bucket starts with remaining = 1.  A LockBucket that finds
\* remaining >= 1 does not sleep on the bucket, one that finds no global rate
\* limit ahead does not sleep on that, and its return lowers remaining by
\* exactly one.  A Release on a bucket without rule whose headers have only a
\* remaining count n sets remaining = n and leaves reset and the global rate
\* limit alone.
TakesOneSetsN ==
    \A p \in Ps :
       /\ pc[p] = "gb_create" /\ pc'[p] # "gb_create"
             => /\ pc'[p] = "lb_lock" /\ loc'[p].b = Len(bkt) + 1
                /\ bkt'[loc'[p].b].remaining = 1
       /\ pc[p] = "lb_check" /\ pc'[p] # "lb_check" /\ bkt[loc[p].b].remaining >= 1
             => pc'[p] = "lb_global"
       /\ pc[p] = "lb_global" /\ pc'[p] # "lb_global" /\ ~(now < global)
             => pc'[p] = "lb_dec"
       /\ pc[p] \in {"lb_check", "lb_sleep", "lb_global", "lb_gsleep"}
          /\ pc'[p] # pc[p]
             => bkt'[loc[p].b].remaining = bkt[loc[p].b].remaining
       /\ pc[p] = "lb_dec" /\ pc'[p] # "lb_dec"
             => /\ pc'[p] = "held"
                /\ bkt'[loc[p].b].remaining = bkt[loc[p].b].remaining - 1
       /\ pc[p] = "rel_hdr" /\ pc'[p] # "rel_hdr" /\ OnlyRemaining(loc[p].hdr)
             => /\ bkt'[loc[p].b].remaining = ParseInt(loc[p].hdr.remaining).val
                /\ bkt'[loc[p].b].reset = bkt[loc[p].b].reset
                /\ global' = global
                /\ loc'[p].ret = "nil"

\* C12: a new bucket has remaining = 1; with no global rate limit active
\* LockBucket returns without sleeping and leaves remaining = 0; a Release
\* with a remaining count n (no rule, no other rate limit header) sets
\* remaining = n, and for n >= 1 the next LockBucket does not sleep on the
\* bucket and leaves n - 1: every return of LockBucket lowers remaining by
\* exactly one.
C12_DecrementByOne == [][TakesOneSetsN]_vars

\* After a Release with the remaining count 2 as its only header, the next
\* LockBucket on the bucket, which has no rule and no reset, has returned and
\* left remaining = 1.
C12_Witness ==
    \E p \in Ps :
       /\ pc[p] = "held" /\ bkt[loc[p].b].customRateLimit = 0
       /\ bkt[loc[p].b].remaining = 1
       /\ bkt[loc[p].b].reset = ZeroTime /\ bkt[loc[p].b].lastReset = ZeroTime
       /\ global = 0

\* p holds the registry lock: inside getBucket, SetCustomRateLimit or
\* RemoveCustomRateLimit, past r.Lock().
InRegistry(p) == pc[p] \in {"gb_find", "gb_create"} \/ InSet(p) \/ InRemove(p)

\* The next step of p inside the registry.
RegistryStep(p) ==
    \/ GetBucketFind(p) \/ GetBucketCreate(p)
    \/ SetFind(p) \/ SetUpdateRequests(p) \/ SetUpdateReset(p)
    \/ SetAttach(p) \/ SetReturn(p)
    \/ RemoveFind(p) \/ RemoveDetach(p) \/ RemoveReturn(p)

\* A goroutine that holds the registry lock can take its next step whatever
\* slots are held; the registry lock is held only by a goroutine inside the
\* registry, so a configuration call that waits for it can take it when
\* there is none.
ConfigNeverWaitsForSlot ==
    /\ \A p \in Ps : InRegistry(p) => ENABLED RegistryStep(p)
    /\ rmutex => \E p \in Ps : InRegistry(p)
    /\ \A p \in Ps :
          pc[p] \in {"set_lock", "rm_lock"} /\ (\A q \in Ps : ~InRegistry(q))
             => ENABLED (SetLock(p) \/ RemoveLock(p))

\* C13: SetCustomRateLimit and RemoveCustomRateLimit never wait for the
\* admission slot of a bucket: they go on to completion while buckets are
\* checked out and while callers sleep inside LockBucket.
C13_ConfigIgnoresSlots == []ConfigNeverWaitsForSlot

\* SetCustomRateLimit is about to attach its rule to a bucket that is locked:
\* another goroutine sleeps inside LockBucket on the reset of that bucket.
C13_Witness ==
    \E p, q \in Ps :
       /\ pc[p] = "set_scan" /\ pc[q] = "lb_sleep"
       /\ loc[q].b \in SetMatching(p)
       /\ bkt[loc[q].b].locked

\* Non-nil headers in which every value that is there is well-formed.
WellFormed(h) ==
    /\ ~h.nil
    /\ h.retryAfter # <<>> => ParseInt(h.retryAfter).ok
    /\ h.reset # <<>> => ParseInt(h.reset).ok /\ ParseTime(h.date).ok
    /\ h.remaining # <<>> => ParseInt(h.remaining).ok

\* The header branch with well-formed headers applies one reset source:
\* Retry-After, to the global rate limit with X-RateLimit-Global (computed
\* from the clock in one step, stored in the next) and to the reset of the
\* bucket without; or else X-RateLimit-Reset, relative to Date and 250 ms
\* later; or else none.
OneResetSource ==
    \A p \in Ps :
       /\ pc[p] = "rel_h221" /\ pc'[p] # "rel_h221" /\ WellFormed(loc[p].hdr)
          => /\ global' = loc[p].t
             /\ bkt'[loc[p].b].reset = bkt[loc[p].b].reset
             /\ bkt'[loc[p].b].lastReset = bkt[loc[p].b].lastReset
             /\ pc'[p] = "done" /\ loc'[p].ret = "nil"
       /\ pc[p] = "rel_hdr" /\ pc'[p] # "rel_hdr" /\ WellFormed(loc[p].hdr)
          => LET h == loc[p].hdr
                 b == loc[p].b
             IN  /\ h.retryAfter # <<>> /\ h.global # <<>>
                       => /\ pc'[p] = "rel_h221"
                          /\ loc'[p].t = now + ParseInt(h.retryAfter).val
                          /\ loc'[p].hdr = h
                          /\ global' = global
                          /\ bkt'[b].reset = bkt[b].reset
                 /\ h.retryAfter # <<>> /\ h.global = <<>>
                       => /\ bkt'[b].reset = now + ParseInt(h.retryAfter).val
                          /\ global' = global
                 /\ h.retryAfter = <<>> /\ h.reset # <<>>
                       => /\ bkt'[b].reset =
                                now + (ParseInt(h.reset).val * 1000
                                          - ParseTime(h.date).val) + 250
                          /\ global' = global
                 /\ h.retryAfter = <<>> /\ h.reset = <<>>
                       => /\ bkt'[b].reset = bkt[b].reset
                          /\ global' = global
                 /\ bkt'[b].lastReset = bkt[b].lastReset
                 /\ pc'[p] = "done" => loc'[p].ret = "nil"

\* C14: in the header branch of Release, with well-formed headers, exactly
\* one reset source is applied: Retry-After (now + that many ms) goes to the
\* global rate limit when the global flag is there, the reset of the bucket
\* unchanged, and to the reset of the bucket otherwise, the global rate limit
\* unchanged, and the epoch reset is ignored; without Retry-After the epoch
\* reset gives reset = now + (reset - Date) + 250 ms; with neither, reset and
\* the global rate limit are unchanged.
C14_OneResetSource == [][OneResetSource]_vars

\* The header branch is about to apply a Retry-After for the bucket from
\* headers that also have an epoch reset and its Date.
C14_Witness ==
    \E p \in Ps :
       /\ pc[p] = "rel_hdr" /\ WellFormed(loc[p].hdr)
       /\ loc[p].hdr.retryAfter # <<>> /\ loc[p].hdr.global = <<>>
       /\ loc[p].hdr.reset # <<>>
       /\ bkt[loc[p].b].reset # now + ParseInt(loc[p].hdr.retryAfter).val

\* p is in the custom branch of Release.
InCustom(p) ==
    pc[p] \in {"rel_c186", "rel_c186c", "rel_c187", "rel_c188", "rel_c190",
               "rel_c191"}

\* With a rule attached Release goes to the custom branch whatever its
\* headers are; there it refills the bucket (remaining = requests - 1,
\* lastReset = now) exactly if the time since lastReset is at least the reset
\* of the rule, then sets reset = now + the reset of the rule exactly if
\* remaining < 1; it leaves the global rate limit alone and returns nil.
\* Each now is the time.Now() of its line (186, 188, 191), a step of its own.
CustomIgnoresHeaders ==
    \A p \in Ps :
       LET b == loc[p].b
           rl == rules[loc[p].rl]
       IN  /\ pc[p] = "held" /\ pc'[p] # "held" /\ bkt[b].customRateLimit # 0
                 => /\ pc'[p] = "rel_c186"
                    /\ loc'[p].rl = bkt[b].customRateLimit
                    /\ bkt'[b].remaining = bkt[b].remaining
                    /\ bkt'[b].reset = bkt[b].reset
                    /\ bkt'[b].lastReset = bkt[b].lastReset
                    /\ global' = global
           /\ InCustom(p) /\ pc'[p] # pc[p]
                 => /\ global' = global
                    /\ pc'[p] = "done" => loc'[p].ret = "nil"
           /\ pc[p] = "rel_c186" /\ pc'[p] # "rel_c186"
                 => /\ bkt' = bkt
                    /\ pc'[p] = "rel_c186c" /\ loc'[p].t = now
           /\ pc[p] = "rel_c186c" /\ pc'[p] # "rel_c186c"
                 => /\ bkt' = bkt
                    /\ pc'[p] = IF TimeSub(loc[p].t, bkt[b].lastReset) >= rl.reset
                                THEN "rel_c187" ELSE "rel_c190"
           /\ pc[p] = "rel_c187" /\ pc'[p] # "rel_c187"
                 => /\ pc'[p] = "rel_c188"
                    /\ bkt'[b].remaining = rl.requests - 1
                    /\ bkt'[b].lastReset = bkt[b].lastReset
                    /\ bkt'[b].reset = bkt[b].reset
           /\ pc[p] = "rel_c188" /\ pc'[p] # "rel_c188"
                 => /\ pc'[p] = "rel_c190"
                    /\ bkt'[b].remaining = bkt[b].remaining
                    /\ bkt'[b].lastReset = now
                    /\ bkt'[b].reset = bkt[b].reset
           /\ pc[p] = "rel_c190" /\ pc'[p] # "rel_c190"
                 => /\ IF bkt[b].remaining < 1
                       THEN pc'[p] = "rel_c191" /\ loc'[p].t = now
                       ELSE pc'[p] = "done"
                    /\ bkt'[b].remaining = bkt[b].remaining
                    /\ bkt'[b].lastReset = bkt[b].lastReset
                    /\ bkt'[b].reset = bkt[b].reset
           /\ pc[p] = "rel_c191" /\ pc'[p] # "rel_c191"
                 => /\ pc'[p] = "done"
                    /\ bkt'[b].remaining = bkt[b].remaining
                    /\ bkt'[b].lastReset = bkt[b].lastReset
                    /\ bkt'[b].reset = loc[p].t + rl.reset

\* C15: with a rule (R, D) attached Release ignores the headers entirely (no
\* change of the global rate limit, nothing taken from headers, no parse
\* error): if now - lastReset >= D it sets remaining = R - 1 and
\* lastReset = now, otherwise it leaves both; then, if remaining < 1, it sets
\* reset = now + D, otherwise it leaves reset.
C15_CustomBranch == [][CustomIgnoresHeaders]_vars

\* A Release has returned nil from the custom branch inside the cycle of the
\* rule: the bucket was not refilled, is out of calls, and its reset is the
\* reset of the rule from now.
C15_Witness ==
    \E p \in Ps, b \in Bs :
       /\ pc[p] = "done" /\ loc[p].ret = "nil"
       /\ bkt[b].customRateLimit # 0 /\ ~bkt[b].locked
       /\ bkt[b].remaining = 0 /\ bkt[b].lastReset # ZeroTime
       /\ bkt[b].reset = now + rules[bkt[b].customRateLimit].reset

\* Non-nil headers with a well-formed remaining count.
HasRemaining(h) ==
    ~h.nil /\ h.remaining # <<>> /\ ParseInt(h.remaining).ok

\* The headers have a malformed value that Release parses before the
\* remaining count: Retry-After, or without Retry-After the Date or the
\* epoch reset.
FailsBeforeRemaining(h) ==
    \/ h.retryAfter # <<>> /\ ~ParseInt(h.retryAfter).ok
    \/ h.retryAfter = <<>> /\ h.reset # <<>>
       /\ (~ParseTime(h.date).ok \/ ~ParseInt(h.reset).ok)

\* The step by which the header branch of the Release of p returns: the
\* store of a global Retry-After, or the only step of the branch.
HeaderReturns(p) == pc[p] \in {"rel_hdr", "rel_h221"} /\ pc'[p] = "done"

\* The header branch sets remaining to a well-formed remaining count.
RemainingTaken ==
    \A p \in Ps :
       HeaderReturns(p) /\ HasRemaining(loc[p].hdr)
          => bkt'[loc[p].b].remaining = ParseInt(loc[p].hdr.remaining).val

\* C16 as stated: in the header branch of Release, whenever the headers have
\* a well-formed remaining count n, Release sets remaining to n, whatever
\* the other headers contain.
C16_RemainingAlwaysTaken == [][RemainingTaken]_vars

\* The header branch sets remaining to a well-formed remaining count unless a
\* header parsed before it is malformed; then it returns the parse error and
\* leaves remaining as it was.
RemainingTakenUnlessFailed ==
    \A p \in Ps :
       /\ HeaderReturns(p) /\ HasRemaining(loc[p].hdr)
          => IF FailsBeforeRemaining(loc[p].hdr)
             THEN /\ bkt'[loc[p].b].remaining = bkt[loc[p].b].remaining
                  /\ loc'[p].ret = "parse"
             ELSE /\ bkt'[loc[p].b].remaining = ParseInt(loc[p].hdr.remaining).val
                  /\ loc'[p].ret = "nil"
       /\ pc[p] = "rel_hdr" /\ pc'[p] = "rel_h221"
          => /\ bkt'[loc[p].b].remaining = bkt[loc[p].b].remaining
             /\ loc'[p].hdr = loc[p].hdr

\* C16, amended: in the header branch of Release, whenever the headers have a
\* well-formed remaining count n, Release sets remaining to n, whatever the
\* well-formed values of the other headers; if Retry-After, or without it the
\* Date or the epoch reset, is malformed, Release returns the parse error
\* and leaves remaining unchanged.
C16_RemainingTakenUnlessFailed == [][RemainingTakenUnlessFailed]_vars

\* The header branch is about to take a remaining count, which differs from
\* the remaining of the bucket, from headers that also have a Retry-After
\* and an epoch reset.
C16_Witness ==
    \E p \in Ps :
       /\ pc[p] = "rel_hdr" /\ HasRemaining(loc[p].hdr)
       /\ ~FailsBeforeRemaining(loc[p].hdr)
       /\ loc[p].hdr.retryAfter # <<>> /\ loc[p].hdr.reset # <<>>
       /\ bkt[loc[p].b].remaining # ParseInt(loc[p].hdr.remaining).val

\* The remaining count of the headers is there and malformed.
BadRemaining(h) == h.remaining # <<>> /\ ~ParseInt(h.remaining).ok

\* Release returns a parse error exactly for headers with a malformed value
\* on its way.  A value that fails before the remaining count leaves
\* remaining, reset, lastReset and the global rate limit as they were; a
\* malformed remaining count leaves remaining and lastReset as they were
\* and the reset source before it applied.
ParseErrorKeepsWritten ==
    \A p \in Ps :
       /\ pc[p] = "rel_hdr" /\ pc'[p] = "rel_h221"
          => /\ bkt' = bkt /\ global' = global
             /\ loc'[p].hdr = loc[p].hdr
             /\ loc'[p].t = now + ParseInt(loc[p].hdr.retryAfter).val
       /\ HeaderReturns(p) /\ ~loc[p].hdr.nil
          => LET h == loc[p].hdr
                 b == loc[p].b
             IN  /\ loc'[p].ret = "parse"
                       <=> FailsBeforeRemaining(h) \/ BadRemaining(h)
                 /\ pc[p] = "rel_h221"
                       <=> ~FailsBeforeRemaining(h)
                              /\ h.retryAfter # <<>> /\ h.global # <<>>
                 /\ FailsBeforeRemaining(h)
                       => /\ bkt'[b].remaining = bkt[b].remaining
                          /\ bkt'[b].reset = bkt[b].reset
                          /\ bkt'[b].lastReset = bkt[b].lastReset
                          /\ global' = global
                 /\ ~FailsBeforeRemaining(h) /\ BadRemaining(h)
                       => /\ bkt'[b].remaining = bkt[b].remaining
                          /\ bkt'[b].lastReset = bkt[b].lastReset
                          /\ h.retryAfter # <<>> /\ h.global # <<>>
                                => /\ global' = loc[p].t
                                   /\ bkt'[b].reset = bkt[b].reset
                          /\ h.retryAfter # <<>> /\ h.global = <<>>
                                => /\ bkt'[b].reset = now + ParseInt(h.retryAfter).val
                                   /\ global' = global
                          /\ h.retryAfter = <<>> /\ h.reset # <<>>
                                => /\ bkt'[b].reset =
                                         now + (ParseInt(h.reset).val * 1000
                                                   - ParseTime(h.date).val) + 250
                                   /\ global' = global
                          /\ h.retryAfter = <<>> /\ h.reset = <<>>
                                => /\ bkt'[b].reset = bkt[b].reset
                                   /\ global' = global

\* C17: when Release returns a header parse error, every field written
\* before the failing header keeps its new value and every other field among
\* remaining, reset, lastReset and the global rate limit keeps the value it
\* had before the call.
C17_ParseErrorPartial == [][ParseErrorKeepsWritten]_vars

\* The header branch is about to store a global Retry-After, which changes
\* the global rate limit, and then to fail on the remaining count.
C17_Witness ==
    \E p \in Ps :
       /\ pc[p] = "rel_h221" /\ ~loc[p].hdr.nil
       /\ BadRemaining(loc[p].hdr) /\ ~FailsBeforeRemaining(loc[p].hdr)
       /\ loc[p].hdr.retryAfter # <<>>
       /\ global # loc[p].t

\* No two rules of the list have the same suffix (nor is a rule twice in it).
NoDuplicateSuffix ==
    \A i, j \in 1..Len(customRateLimits) :
       rules[customRateLimits[i]].suffix = rules[customRateLimits[j]].suffix
          => i = j

\* SetCustomRateLimit with a suffix of the list leaves the list as it is and
\* goes on with that rule; with another suffix it appends a new rule, one
\* that nothing referred to, with its arguments at the end and leaves the
\* other rules as they are.  Its two
\* writes change only requests and reset of its rule.  Past the search it
\* leaves the list alone, keeps the buckets of its rule attached to it, and
\* returns with the rule in the list and its arguments in the rule.  A
\* Release takes the rule the bucket has then and refills from its requests.
UpsertsBySuffix ==
    \A p \in Ps :
       /\ pc[p] = "set_find" /\ pc'[p] # "set_find"
             => IF \E r \in Listed : rules[r].suffix = loc[p].suffix
                THEN /\ customRateLimits' = customRateLimits
                     /\ rules' = rules
                     /\ pc'[p] = "set_w51"
                     /\ loc'[p].rl \in Listed
                     /\ rules[loc'[p].rl].suffix = loc[p].suffix
                ELSE /\ customRateLimits' = Append(customRateLimits, loc'[p].rl)
                     /\ loc'[p].rl \notin Listed
                     /\ \A b \in Bs : bkt[b].customRateLimit # loc'[p].rl
                     /\ \A q \in Ps : loc[q].rl # loc'[p].rl
                     /\ \A r \in 1..Len(rules) :
                           r # loc'[p].rl => rules'[r] = rules[r]
                     /\ rules'[loc'[p].rl] = [suffix |-> loc[p].suffix,
                                              requests |-> loc[p].requests,
                                              reset |-> loc[p].reset]
                     /\ pc'[p] = "set_scan"
       /\ pc[p] \in {"set_w51", "set_w52", "set_scan"}
             => /\ customRateLimits' = customRateLimits
                /\ Len(rules') = Len(rules)
                /\ \A r \in 1..Len(rules) :
                      /\ rules'[r].suffix = rules[r].suffix
                      /\ r # loc[p].rl => rules'[r] = rules[r]
                /\ \A b \in Bs :
                      bkt[b].customRateLimit = loc[p].rl
                         => bkt'[b].customRateLimit = loc[p].rl
       /\ pc[p] = "set_scan" /\ pc'[p] # "set_scan"
             => /\ loc[p].rl \in Listed
                /\ rules[loc[p].rl] = [suffix |-> loc[p].suffix,
                                       requests |-> loc[p].requests,
                                       reset |-> loc[p].reset]
       /\ pc[p] = "held" /\ pc'[p] # "held"
             => loc'[p].rl = bkt[loc[p].b].customRateLimit
       /\ pc[p] = "rel_c187" /\ pc'[p] # "rel_c187"
             => bkt'[loc[p].b].remaining = rules[loc[p].rl].requests - 1

\* C18: SetCustomRateLimit is an upsert by suffix: the rule list never has
\* two rules with the same suffix; setting a registered suffix keeps length
\* and order of the list and updates requests and reset of that same rule, so
\* that the buckets attached to it use the new values on their next Release
\* without being reattached; setting another suffix appends a new rule at
\* the end of the list.
C18_UpsertBySuffix == []NoDuplicateSuffix /\ [][UpsertsBySuffix]_vars

\* SetCustomRateLimit has found the rule of its suffix at the second place
\* of a list of two, with requests and reset that differ from its arguments,
\* and a bucket attached to it.
C18_Witness ==
    \E p \in Ps, b \in Bs :
       /\ pc[p] = "set_w51" /\ bkt[b].customRateLimit = loc[p].rl
       /\ Len(customRateLimits) = 2 /\ customRateLimits[2] = loc[p].rl
       /\ rules[loc[p].rl].requests # loc[p].requests
       /\ rules[loc[p].rl].reset # loc[p].reset

\* The places in the list of the rules whose suffix ends key.
MatchingAt(key) ==
    {i \in 1..Len(customRateLimits) :
        HasSuffix(key, rules[customRateLimits[i]].suffix)}

\* getBucket creates the bucket of a key that has none, with the first rule
\* of the list whose suffix ends the key, and with no rule if there is none.
CreatesWithFirstMatch ==
    \A p \in Ps :
       pc[p] = "gb_create" /\ pc'[p] # "gb_create"
          => /\ buckets[loc[p].key] = 0
             /\ buckets'[loc[p].key] = Len(bkt) + 1
             /\ Len(bkt') = Len(bkt) + 1
             /\ loc'[p].b = Len(bkt) + 1
             /\ bkt'[Len(bkt) + 1].Key = loc[p].key
             /\ IF MatchingAt(loc[p].key) = {}
                THEN bkt'[Len(bkt) + 1].customRateLimit = 0
                ELSE \E i \in MatchingAt(loc[p].key) :
                        /\ \A j \in MatchingAt(loc[p].key) : i <= j
                        /\ bkt'[Len(bkt) + 1].customRateLimit = customRateLimits[i]

\* C19: the bucket that the first LockBucket of a key creates is attached to
\* the earliest registered rule, in registration order, whose suffix is a
\* suffix of the key, and to no rule when no registered suffix matches.
C19_FirstMatchAtCreation == [][CreatesWithFirstMatch]_vars

\* LockBucket has just created the bucket of key A while the list holds the
\* rule of suffix a.x before the rule of suffix x: the bucket has the former.
C19_Witness ==
    \E p \in Ps :
       /\ pc[p] = "lb_lock" /\ loc[p].key = KeyA
       /\ bkt[loc[p].b].remaining = 1 /\ ~bkt[loc[p].b].retro
       /\ bkt[loc[p].b].reset = ZeroTime /\ bkt[loc[p].b].lastReset = ZeroTime
       /\ Len(customRateLimits) = 2
       /\ rules[customRateLimits[1]].suffix = SuffixAX
       /\ rules[customRateLimits[2]].suffix = SuffixX
       /\ bkt[loc[p].b].customRateLimit = customRateLimits[1]

\* p is inside a call of LockBucket, Release, SetCustomRateLimit or
\* RemoveCustomRateLimit that has not returned.
InCall(p) == pc[p] \notin {"idle", "held", "done"}

\* p sleeps inside LockBucket until an instant that the clock of the model
\* does not reach.
SleepsBeyond(p) ==
    \/ pc[p] = "lb_sleep" /\ loc[p].wake > MaxTime
    \/ pc[p] = "lb_gsleep" /\ loc[p].sleepTo > MaxTime

\* p sleeps until such an instant, or waits for the slot of a bucket whose
\* holder does.
WaitsBeyond(p) ==
    \/ SleepsBeyond(p)
    \/ pc[p] = "lb_lock"
       /\ \E q \in Ps : q # p /\ loc[q].b = loc[p].b /\ SleepsBeyond(q)

\* C20: under fair scheduling, with a Release after every LockBucket that
\* returned and every reset and global rate limit an instant that comes,
\* every call of LockBucket, Release, SetCustomRateLimit and
\* RemoveCustomRateLimit returns: the registry lock, the admission locks and
\* the rule locks never deadlock.
C20_CallsReturn ==
    \A p \in Procs : InCall(p) ~> (~InCall(p) \/ WaitsBeyond(p))

\* One goroutine waits for the slot of the bucket in which the other sleeps
\* until the global rate limit, an instant that the clock reaches.
C20_Witness ==
    \E p, q \in Ps :
       /\ pc[p] = "lb_lock" /\ pc[q] = "lb_gsleep" /\ loc[p].b = loc[q].b
       /\ loc[q].sleepTo <= MaxTime /\ loc[q].sleepTo > now

\* C21 as stated: whenever a LockBucket call returns, the time is not earlier
\* than the global rate limit stored at that moment, also when another
\* bucket's Release has set or moved it while the call was inside LockBucket.
C21_NotBeforeCurrentGlobal ==
    [][\A p \in Ps : Returns(p) => now >= global]_vars

\* LockBucket loads the global rate limit once, after the wait for the slot
\* and the sleep on the bucket, and sleeps until the loaded instant if it is
\* ahead; the sleep lasts to that instant whatever is stored meanwhile, and
\* the call returns no earlier than it.
GatedByLoadedGlobal ==
    \A p \in Ps :
       /\ pc[p] \in {"lb_lock", "lb_check", "lb_sleep"} /\ pc'[p] # pc[p]
             => loc'[p].sleepTo = 0 /\ pc'[p] # "lb_dec"
       /\ pc[p] = "lb_global" /\ pc'[p] # "lb_global"
             => /\ loc'[p].sleepTo = global
                /\ pc'[p] = IF now < global THEN "lb_gsleep" ELSE "lb_dec"
       /\ pc[p] = "lb_gsleep" /\ pc'[p] # "lb_gsleep"
             => /\ now >= loc[p].sleepTo
                /\ loc'[p].sleepTo = loc[p].sleepTo
                /\ pc'[p] = "lb_dec"
       /\ pc[p] = "lb_dec" /\ pc'[p] # "lb_dec"
             => pc'[p] = "held" /\ now >= loc[p].sleepTo

\* C21, amended: whenever a LockBucket call returns, the time is not earlier
\* than the global rate limit that the call loaded at its global check; an
\* instant that another bucket's Release stores while the call waits for the
\* slot or sleeps on the bucket reset is the one it loads, an instant stored
\* after the load (during the global sleep or between check and return) does
\* not hold the call back.
C21_NotBeforeLoadedGlobal == [][GatedByLoadedGlobal]_vars

\* A LockBucket call that began with no global rate limit ahead sleeps until
\* one that the Release of the other bucket stored while the call was inside
\* LockBucket.
C21_Witness ==
    \E p \in Ps :
       /\ pc[p] = "lb_gsleep" /\ loc[p].g0 = 0
       /\ loc[p].sleepTo = global /\ global > now

\* The larger of two numbers.
Max(a, b) == IF a >= b THEN a ELSE b

\* While the cycle of a bucket is counted, the rule (R, D) that started it is
\* attached, and at most max(R - 1, 0) LockBucket calls on the bucket have
\* returned since its start and before its end, lastReset + D.
QuotaPerCycle ==
    \A b \in Bs :
       bkt[b].taken >= 0
          => /\ bkt[b].customRateLimit # 0
             /\ bkt[b].lastReset # ZeroTime
             /\ bkt[b].taken <= Max(rules[bkt[b].customRateLimit].requests - 1, 0)

\* The count starts with the cycle, when the custom branch has refilled the
\* bucket and sets lastReset (taken is -2 between the two, unless the rule
\* was changed or detached meanwhile), and goes up with each return of
\* LockBucket before lastReset + D.
CountsCycle ==
    \A p \in Ps :
       /\ pc[p] = "rel_c187" /\ pc'[p] # "rel_c187"
          /\ bkt[loc[p].b].customRateLimit = loc[p].rl
             => /\ bkt'[loc[p].b].taken = 0 - 2
                /\ bkt'[loc[p].b].remaining = rules[loc[p].rl].requests - 1
       /\ pc[p] = "rel_c188" /\ pc'[p] # "rel_c188"
             => /\ bkt'[loc[p].b].lastReset = now
                /\ bkt'[loc[p].b].taken >= 0 <=> bkt[loc[p].b].taken = 0 - 2
                /\ bkt[loc[p].b].taken = 0 - 2
                      => /\ bkt'[loc[p].b].taken = 0
                         /\ bkt[loc[p].b].customRateLimit = loc[p].rl
                         /\ bkt'[loc[p].b].remaining
                               = rules[loc[p].rl].requests - 1
       /\ Returns(p) /\ bkt[loc[p].b].taken >= 0
          /\ now < bkt[loc[p].b].lastReset
                      + rules[bkt[loc[p].b].customRateLimit].reset
             => bkt'[loc[p].b].taken = bkt[loc[p].b].taken + 1

\* C22: for a bucket whose rule (R, D) stays attached and unchanged, once a
\* Release has started a cycle at t (lastReset = t, remaining = R - 1), at
\* most max(R - 1, 0) further LockBucket calls on the key return before
\* t + D: no more than R requests per cycle, with the one that started it.
C22_QuotaPerCycle == []QuotaPerCycle /\ [][CountsCycle]_vars

\* In the cycle of a rule with R = 2 one further LockBucket has returned and
\* been released, and the next one sleeps until the end of the cycle or later.
C22_Witness ==
    \E p \in Ps :
       /\ pc[p] = "lb_sleep" /\ bkt[loc[p].b].taken = 1
       /\ rules[bkt[loc[p].b].customRateLimit].requests = 2
       /\ loc[p].wake >= bkt[loc[p].b].lastReset
                            + rules[bkt[loc[p].b].customRateLimit].reset

\* With the registry lock free, the rule of every bucket that has one is in
\* the list and its suffix ends the key of the bucket.
AttachedAreListed ==
    ~rmutex
       => \A b \in Bs :
             bkt[b].customRateLimit # 0
                => /\ bkt[b].customRateLimit \in Listed
                   /\ HasSuffix(bkt[b].Key, rules[bkt[b].customRateLimit].suffix)

\* C23: in every state in which no SetCustomRateLimit, RemoveCustomRateLimit
\* or bucket creation is in progress (the registry lock is free), the rule
\* attached to a bucket, if any, is in the current rule list and its suffix
\* is a suffix of the key of the bucket: no bucket stays attached to a
\* removed rule.
C23_AttachedAreListed == []AttachedAreListed

\* The registry lock is free after a rule was removed whose suffix ends the
\* key of a bucket; that bucket has another rule, one of the list.
C23_Witness ==
    /\ ~rmutex
    /\ \E r \in 1..Len(rules), b \in Bs :
          /\ r \notin Listed
          /\ HasSuffix(bkt[b].Key, rules[r].suffix)
          /\ bkt[b].customRateLimit # 0

\* What the custom branch of the Release of p reads in this step is of one
\* setting (requests, reset) that a call of SetCustomRateLimit passed: the
\* rl.requests it refills from goes with the rl.reset it compared, and the
\* rl.reset it adds to the time is the one it compared.
ReadsOneSetting(p) ==
    /\ pc[p] = "rel_c187" /\ pc'[p] = "rel_c188"
          => [requests |-> rules[loc[p].rl].requests, reset |-> loc[p].d186]
                \in RulesIn
    /\ pc[p] = "rel_c191" /\ pc'[p] = "done"
          => rules[loc[p].rl].reset = loc[p].d186

\* C24: a Release in the custom branch evaluates its rule as one consistent
\* (requests, reset) pair written by a single SetCustomRateLimit call: the
\* interval compared with now - lastReset, the quota used for remaining and
\* the interval added to reset all come from the same call, also when
\* SetCustomRateLimit updates that rule in place during the Release.
C24_ReadsOneSetting == [][\A p \in Ps : ReadsOneSetting(p)]_vars

\* A Release has compared the interval of one setting and is about to refill
\* from the rule while SetCustomRateLimit has written the requests of the
\* other setting into it and not yet the interval.
C24_Witness ==
    \E p \in Ps, q \in Ps :
       /\ pc[p] = "rel_c187"
       /\ pc[q] = "set_w52"
       /\ loc[q].rl = loc[p].rl
       /\ loc[q].reset # loc[p].d186
       /\ rules[loc[p].rl].requests = loc[q].requests

\* No goroutine is in a call on the Session.
Quiet == \A p \in Procs : calls[p] = <<>>

\* How many times the handler of this name is in the table.
Registrations(name) ==
    Cardinality({ti \in EventTypes \X (1..(Cardinality(HandlersIn)
                                           + 2 * Len(InternalHandlers))) :
                    /\ ti[2] <= Len(handlers.at[ti[1]])
                    /\ handlers.at[ti[1]][ti[2]] = name})

\* The handler is in the table under its event type.
Registered(handler) ==
    \E i \in 1..Len(handlers.at[EventType(handler)]) :
       handlers.at[EventType(handler)][i] = handler.name

\* Once the calls are over, the handlers added are in the table and so is
\* each internal handler, once.
HandlersStay ==
    Quiet /\ added # {}
       => /\ \A handler \in added : Registered(handler)
          /\ \A i \in 1..Len(InternalHandlers) :
                Registrations(InternalHandlers[i].name) = 1

\* C25: every handler passed to Session.AddHandler stays registered: after
\* any interleaving of concurrent AddHandler calls on a fresh Session,
\* the lazy initialization of the handler table included, during which
\* AddHandler gives up and retakes the session lock, each added handler is
\* in the table under its event type and each of the five internal handlers
\* is registered exactly once.
C25_HandlersStay == []HandlersStay

\* Two goroutines have found s.handlers nil: one has made the table and is
\* adding the internal handlers, the other is about to make it again.
C25_Witness ==
    \E p \in Procs, q \in Procs :
       /\ At(p, "AddHandler", "lock") /\ Len(calls[p]) = 3
       /\ At(q, "initialize", "make")
       /\ ~handlers.nil

====
